---- MODULE Spec2Model ----
(***************************************************************************)
(* A model of the indumi calculator core: tokenizer, recursive-descent     *)
(* parser, evaluator over a variable environment, and the number/currency  *)
(* formatter (src/src/parser.rs, src/src/calc.rs, src/src/currency.rs).    *)
(* The editor and its render pass under the main loop follow              *)
(* src/src/editor.rs, src/src/ui.rs and src/src/main.rs; a String there is *)
(* indexed by byte, a multi-byte character counting three bytes.           *)
(*                                                                         *)
(* Text is a sequence of one-character strings; fixed message literals of  *)
(* the source appear as single multi-character pieces of such a sequence.  *)
(* An f64 is an exact rational [n, d] in lowest terms with d > 0, or one   *)
(* of the three non-finite values with d = 0: n = 1 is +inf, n = -1 is     *)
(* -inf and n = 0 is NaN.  Binary rounding error and the sign of zero are  *)
(* not modelled.                                                           *)
(***************************************************************************)
EXTENDS Integers, Sequences, FiniteSets, TLC

VARIABLES
    variables,      \* Calculator.variables: name -> f64
    rates,          \* CurrencyConverter.rates: code -> f64
    line,           \* the text last handed to evaluate_line or to parse
    out,            \* what evaluate_line returned for it (None or Some(text))
    toks,           \* the token vector parse_expression built for it
    expr,           \* the Expression last parsed or handed to evaluate
    parse_error,    \* the message of the last parse when it failed, else empty
    result,         \* the Result<f64, String> of the last evaluate call
    value,          \* the f64 handed to the formatter
    indian_style,   \* the formatter's grouping/vocabulary flag
    formatted,      \* format_with_separator's String
    integer_str,    \* the grouped integer digits inside format_with_separator
    estimation,     \* estimate_number's Option<String>
    conv_amount,    \* the f64 handed to convert
    conv_from,      \* the code convert is asked to convert from
    conv_to,        \* the code convert is asked to convert to
    converted,      \* the Result<f64, String> of the last convert call
    fetched,        \* the Result of fetch_rates inside CurrencyConverter::new
    lines,          \* Editor.lines: the buffer, one String per line
    cursor_line,    \* Editor.cursor_line
    cursor_col,     \* Editor.cursor_col: a byte offset into the current line
    shown,          \* the frame last drawn: per buffer line, its text and its result
    pc              \* position of the driver of the run

vars == <<variables, rates, line, out, toks, expr, parse_error, result, value,
          indian_style, formatted, integer_str, estimation, conv_amount, conv_from,
          conv_to, converted, fetched, lines, cursor_line, cursor_col, shown, pc>>

----------------------------------------------------------------------------
(* Bounds of the model *)

\* longest generated line, in lexemes
MaxLexemes == 3
\* largest magnitude an environment value may take in the session
MaxStored == 8
\* largest mantissa of the values handed to the formatter
MaxMantissa == 12
\* largest number literal in the trees handed to evaluate
MaxLeaf == 3

----------------------------------------------------------------------------
(* Characters *)

LowerSeq == <<"a","b","c","d","e","f","g","h","i","j","k","l","m",
              "n","o","p","q","r","s","t","u","v","w","x","y","z">>
UpperSeq == <<"A","B","C","D","E","F","G","H","I","J","K","L","M",
              "N","O","P","Q","R","S","T","U","V","W","X","Y","Z">>
DigitSeq == <<"0","1","2","3","4","5","6","7","8","9">>

Range(f) == { f[k] : k \in DOMAIN f }
Digits == Range(DigitSeq)
UpperSet == Range(UpperSeq)
LowerSet == Range(LowerSeq)
DigitValue == [c \in Digits |-> (CHOOSE k \in 1..10 : DigitSeq[k] = c) - 1]
LowerOf == [c \in UpperSet |-> LowerSeq[CHOOSE k \in 1..26 : UpperSeq[k] = c]]
UpperOf == [c \in LowerSet |-> UpperSeq[CHOOSE k \in 1..26 : LowerSeq[k] = c]]

IsDigit(c) == c \in Digits
DigitVal(c) == DigitValue[c]
IsUpper(c) == c \in UpperSet
IsLower(c) == c \in LowerSet
IsAlphanumeric(c) == IsDigit(c) \/ IsUpper(c) \/ IsLower(c)
IsWhitespace(c) == c \in {" ", "\t", "\n", "\r"}

LowerChar(c) == IF IsUpper(c) THEN LowerOf[c] ELSE c
UpperChar(c) == IF IsLower(c) THEN UpperOf[c] ELSE c
to_lowercase(s) == [k \in 1..Len(s) |-> LowerChar(s[k])]
to_uppercase(s) == [k \in 1..Len(s) |-> UpperChar(s[k])]

RECURSIVE TrimStart(_)
TrimStart(s) == IF s # <<>> /\ IsWhitespace(Head(s)) THEN TrimStart(Tail(s)) ELSE s
RECURSIVE TrimEnd(_)
TrimEnd(s) == IF s # <<>> /\ IsWhitespace(s[Len(s)])
              THEN TrimEnd(SubSeq(s, 1, Len(s) - 1)) ELSE s
trim(s) == TrimEnd(TrimStart(s))

----------------------------------------------------------------------------
(* f64 values *)

Abs(i) == IF i < 0 THEN -i ELSE i
RECURSIVE GCD(_, _)
GCD(a, b) == IF b = 0 THEN a ELSE GCD(b, a % b)

NaN == [n |-> 0, d |-> 0]
Inf(sign) == [n |-> sign, d |-> 0]
Sgn(i) == IF i > 0 THEN 1 ELSE IF i < 0 THEN -1 ELSE 0

\* the f64 n/d, d # 0
Rat(n, d) ==
    LET g == GCD(Abs(n), Abs(d))
        s == IF d < 0 THEN -1 ELSE 1
    IN  [n |-> s * (n \div g), d |-> s * (d \div g)]
Int2F(i) == [n |-> i, d |-> 1]

IsNaN(v) == v.d = 0 /\ v.n = 0
IsInf(v) == v.d = 0 /\ v.n # 0
IsFinite(v) == v.d # 0
IsZero(v) == v.d # 0 /\ v.n = 0

FNeg(a) == [n |-> -a.n, d |-> a.d]
FAbs(a) == [n |-> Abs(a.n), d |-> a.d]

FAdd(a, b) ==
    IF IsNaN(a) \/ IsNaN(b) THEN NaN
    ELSE IF IsInf(a) THEN (IF IsInf(b) /\ b.n # a.n THEN NaN ELSE a)
    ELSE IF IsInf(b) THEN b
    ELSE Rat(a.n * b.d + b.n * a.d, a.d * b.d)
FSub(a, b) == FAdd(a, FNeg(b))
FMul(a, b) ==
    IF IsNaN(a) \/ IsNaN(b) THEN NaN
    ELSE IF IsInf(a) \/ IsInf(b)
         THEN (IF IsZero(a) \/ IsZero(b) THEN NaN ELSE Inf(Sgn(a.n) * Sgn(b.n)))
    ELSE Rat(a.n * b.n, a.d * b.d)
FDiv(a, b) ==
    IF IsNaN(a) \/ IsNaN(b) THEN NaN
    ELSE IF IsInf(a) THEN (IF IsInf(b) THEN NaN
                           ELSE Inf(a.n * (IF b.n < 0 THEN -1 ELSE 1)))
    ELSE IF IsInf(b) THEN Int2F(0)
    ELSE IF b.n = 0 THEN (IF a.n = 0 THEN NaN ELSE Inf(Sgn(a.n)))
    ELSE Rat(a.n * b.d, a.d * b.n)
\* a < b as f64 comparison (false whenever a NaN is involved)
FLess(a, b) ==
    IF IsNaN(a) \/ IsNaN(b) THEN FALSE
    ELSE IF IsInf(a) THEN a.n < 0 /\ ~(IsInf(b) /\ b.n < 0)
    ELSE IF IsInf(b) THEN b.n > 0
    ELSE a.n * b.d < b.n * a.d
\* a == b as f64 comparison
FEq(a, b) == ~IsNaN(a) /\ ~IsNaN(b) /\ a = b

\* f64::floor of a finite value, as an integer
FloorInt(a) == a.n \div a.d
\* f64::trunc of a finite value, as an integer
TruncInt(a) == IF a.n >= 0 THEN a.n \div a.d ELSE -((-a.n) \div a.d)

\* left % right of f64 (fmod: the sign follows the dividend)
FRem(a, b) ==
    IF IsNaN(a) \/ IsNaN(b) \/ IsInf(a) \/ IsZero(b) THEN NaN
    ELSE IF IsInf(b) THEN a
    ELSE FSub(a, FMul(Int2F(TruncInt(FDiv(a, b))), b))
\* left.powf(right) for the integral exponents the model hands it
RECURSIVE PowNat(_, _)
PowNat(a, k) == IF k = 0 THEN Int2F(1) ELSE FMul(a, PowNat(a, k - 1))
FPow(a, b) ==
    IF IsZero(b) \/ a = Int2F(1) THEN Int2F(1)
    ELSE IF IsNaN(a) \/ IsNaN(b) THEN NaN
    ELSE IF b.n >= 0 THEN PowNat(a, TruncInt(b))
    ELSE FDiv(Int2F(1), PowNat(a, TruncInt(FNeg(b))))

----------------------------------------------------------------------------
(* Text <-> f64 *)

RECURSIVE Pow10(_)
Pow10(k) == IF k = 0 THEN 1 ELSE 10 * Pow10(k - 1)
RECURSIVE DigitsToInt(_)
DigitsToInt(s) == IF s = <<>> THEN 0
                  ELSE 10 * DigitsToInt(SubSeq(s, 1, Len(s) - 1)) + DigitVal(s[Len(s)])
AllDigits(s) == \A k \in 1..Len(s) : IsDigit(s[k])
FirstIndex(s, c) == IF \E k \in 1..Len(s) : s[k] = c
                    THEN CHOOSE k \in 1..Len(s) : s[k] = c /\ \A j \in 1..(k - 1) : s[j] # c
                    ELSE 0

\* str::parse::<f64> on a token: [ok, val]
ParseF64(token) ==
    LET low == to_lowercase(token)
        ePos == FirstIndex(low, "e")
        mant == IF ePos = 0 THEN low ELSE SubSeq(low, 1, ePos - 1)
        expo == IF ePos = 0 THEN <<>> ELSE SubSeq(low, ePos + 1, Len(low))
        dot == FirstIndex(mant, ".")
        ipart == IF dot = 0 THEN mant ELSE SubSeq(mant, 1, dot - 1)
        fpart == IF dot = 0 THEN <<>> ELSE SubSeq(mant, dot + 1, Len(mant))
    IN  IF low = <<"i","n","f">> \/ low = <<"i","n","f","i","n","i","t","y">>
            THEN [ok |-> TRUE, val |-> Inf(1)]
        ELSE IF low = <<"n","a","n">> THEN [ok |-> TRUE, val |-> NaN]
        ELSE IF /\ AllDigits(ipart) /\ AllDigits(fpart)
                /\ Len(ipart) + Len(fpart) > 0
                /\ AllDigits(expo) /\ (ePos # 0 => expo # <<>>)
            THEN [ok |-> TRUE,
                  val |-> Rat(DigitsToInt(ipart \o fpart) * Pow10(DigitsToInt(expo)),
                              Pow10(Len(fpart)))]
        ELSE [ok |-> FALSE, val |-> NaN]

RECURSIVE IntToDigits(_)
\* i64::to_string of a non-negative integer
IntToDigits(i) == IF i < 10 THEN <<DigitSeq[i + 1]>>
                  ELSE IntToDigits(i \div 10) \o <<DigitSeq[(i % 10) + 1]>>
RECURSIVE FracDigits(_, _)
FracDigits(rem, d) == IF rem = 0 THEN <<>>
                      ELSE <<DigitSeq[((rem * 10) \div d) + 1]>> \o FracDigits((rem * 10) % d, d)
\* f64::to_string (Display) of a value with a terminating decimal expansion
to_string(v) ==
    IF IsNaN(v) THEN <<"N","a","N">>
    ELSE IF IsInf(v) THEN (IF v.n < 0 THEN <<"-">> ELSE <<>>) \o <<"i","n","f">>
    ELSE LET a == Abs(v.n)
             ip == a \div v.d
             fr == a % v.d
         IN (IF v.n < 0 THEN <<"-">> ELSE <<>>) \o IntToDigits(ip)
            \o (IF fr = 0 THEN <<>> ELSE <<".">> \o FracDigits(fr, v.d))

----------------------------------------------------------------------------
(* parser.rs: tokenizer *)

IsOperatorChar(ch) == ch \in {"+", "-", "*", "/", "%", "^", "(", ")"}

text_to_multiplier(text) ==
    LET t == to_lowercase(text)
    IN  IF t \in {<<"c","r","o","r","e">>, <<"c","r","o","r","e","s">>, <<"c","r">>}
            THEN Int2F(10000000)
        ELSE IF t \in {<<"l","a","k","h">>, <<"l","a","k","h","s">>,
                       <<"l","a","c">>, <<"l","a","c","s">>}
            THEN Int2F(100000)
        ELSE IF t \in {<<"b","i","l","l","i","o","n">>, <<"b","i","l","l","i","o","n","s">>, <<"b">>}
            THEN Int2F(1000000000)
        ELSE IF t \in {<<"m","i","l","l","i","o","n">>, <<"m","i","l","l","i","o","n","s">>, <<"m">>}
            THEN Int2F(1000000)
        ELSE IF t \in {<<"t","h","o","u","s","a","n","d">>,
                       <<"t","h","o","u","s","a","n","d","s">>, <<"k">>}
            THEN Int2F(1000)
        ELSE Int2F(1)

RECURSIVE SplitFrom(_, _, _, _)
\* the character loop of tokenize and the flush after it
SplitFrom(input, k, tokens, current) ==
    IF k > Len(input)
    THEN (IF current # <<>> THEN Append(tokens, trim(current)) ELSE tokens)
    ELSE LET ch == input[k]
             flushed == IF current # <<>> THEN Append(tokens, trim(current)) ELSE tokens
         IN  IF IsOperatorChar(ch) THEN SplitFrom(input, k + 1, Append(flushed, <<ch>>), <<>>)
             ELSE IF ch = " " THEN SplitFrom(input, k + 1, flushed, <<>>)
             ELSE SplitFrom(input, k + 1, tokens, Append(current, ch))
split(input) == SplitFrom(input, 1, <<>>, <<>>)

RECURSIVE FoldFrom(_, _, _)
\* a post-processing loop that steps over the number only
FoldFromKeepWord(tokens, i, processed) ==
    IF i > Len(tokens) THEN processed
    ELSE IF /\ i + 1 <= Len(tokens)
            /\ ParseF64(tokens[i]).ok
            /\ text_to_multiplier(to_lowercase(tokens[i + 1])) # Int2F(1)
         THEN FoldFrom(tokens, i + 1,
                       Append(processed,
                              to_string(FMul(ParseF64(tokens[i]).val,
                                            text_to_multiplier(to_lowercase(tokens[i + 1]))))))
         ELSE FoldFrom(tokens, i + 1, Append(processed, tokens[i]))

\* the post-processing loop of tokenize
FoldFrom(tokens, i, processed) ==
    IF i > Len(tokens) THEN processed
    ELSE IF /\ i + 1 <= Len(tokens)
            /\ ParseF64(tokens[i]).ok
            /\ text_to_multiplier(to_lowercase(tokens[i + 1])) # Int2F(1)
         THEN FoldFrom(tokens, i + 2,
                       Append(processed,
                              to_string(FMul(ParseF64(tokens[i]).val,
                                            text_to_multiplier(to_lowercase(tokens[i + 1]))))))
         ELSE FoldFrom(tokens, i + 1, Append(processed, tokens[i]))
fold(tokens) == FoldFrom(tokens, 1, <<>>)

tokenize(input) == fold(split(input))

\* a test that takes every three-letter word for a currency code
is_currency_any_code(token) ==
    \/ to_uppercase(token) \in {<<"$">>, <<"EURO SIGN">>, <<"RUPEE SIGN">>}
    \/ Len(token) = 3 /\ \A k \in 1..3 : IsUpper(token[k]) \/ IsLower(token[k])

is_currency(token) ==
    to_uppercase(token) \in {<<"U","S","D">>, <<"E","U","R">>, <<"I","N","R">>,
                             <<"$">>, <<"EURO SIGN">>, <<"RUPEE SIGN">>}
normalize_currency(symbol) ==
    LET u == to_uppercase(symbol)
    IN  IF u \in {<<"$">>, <<"U","S","D">>} THEN <<"U","S","D">>
        ELSE IF u \in {<<"EURO SIGN">>, <<"E","U","R">>} THEN <<"E","U","R">>
        ELSE IF u \in {<<"RUPEE SIGN">>, <<"I","N","R">>} THEN <<"I","N","R">>
        ELSE u

----------------------------------------------------------------------------
(* parser.rs: Expression and the recursive-descent parser *)

NoExpr == [type |-> "None"]
Number(n) == [type |-> "Number", n |-> n]
Variable(name) == [type |-> "Variable", name |-> name]
BinaryOp(op, left, right) == [type |-> "BinaryOp", op |-> op, left |-> left, right |-> right]
Assignment(var, e) == [type |-> "Assignment", var |-> var, expr |-> e]
CurrencyAnnotation(v, currency) ==
    [type |-> "CurrencyAnnotation", value |-> v, currency |-> currency]
CurrencyConversion(source, target_currency) ==
    [type |-> "CurrencyConversion", source |-> source, target_currency |-> target_currency]

Operator == {"Add", "Subtract", "Multiply", "Divide", "Power", "Modulo"}

\* Result<Expression, String> of a grammar rule, with the cursor it leaves
POk(e, i) == [ok |-> TRUE, expr |-> e, i |-> i, err |-> <<>>]
PErr(msg) == [ok |-> FALSE, expr |-> NoExpr, i |-> 0, err |-> msg]

IsWordChar(c) == IsAlphanumeric(c) \/ c = "_"

RECURSIVE parse_conversion(_, _), parse_add_subtract(_, _), parse_mul_div(_, _),
          parse_primary(_, _), AddSubtractLoop(_, _), MulDivLoop(_, _)

\* parse_primary after the parenthesised expression gave r: `?`, then the ")" test
CloseParen(tokens, r) ==
    IF ~r.ok THEN r
    ELSE IF r.i > Len(tokens) \/ tokens[r.i] # <<")">>
         THEN PErr(<<"Expected closing parenthesis">>)
    ELSE POk(r.expr, r.i + 1)

\* parse_primary on a token that is not "(", num the outcome of token.parse::<f64>()
PrimaryToken(tokens, i, num) ==
    IF num.ok
    THEN IF i + 1 <= Len(tokens) /\ is_currency(tokens[i + 1])
         THEN POk(CurrencyAnnotation(Number(num.val), normalize_currency(tokens[i + 1])),
                  i + 2)
         ELSE POk(Number(num.val), i + 1)
    ELSE IF \A k \in 1..Len(tokens[i]) : IsWordChar(tokens[i][k])
    THEN POk(Variable(tokens[i]), i + 1)
    ELSE PErr(<<"Cannot parse: ">> \o tokens[i])

parse_primary(tokens, i) ==
    IF i > Len(tokens) THEN PErr(<<"Expected expression">>)
    ELSE IF tokens[i] = <<"(">> THEN CloseParen(tokens, parse_conversion(tokens, i + 1))
    ELSE PrimaryToken(tokens, i, ParseF64(tokens[i]))

\* left = BinaryOp { op, left, right } once the right operand gave r (`?` on r)
Combine(op, left, r) == IF ~r.ok THEN r ELSE POk(BinaryOp(op, left, r.expr), r.i)

\* a loop that also takes "^" and "%" as operators of this level
MulDivLoopPower(tokens, l) ==
    IF ~l.ok \/ l.i > Len(tokens) THEN l
    ELSE IF tokens[l.i] \in { <<"*">>, <<"/">>, <<"^">>, <<"%">> }
    THEN MulDivLoop(tokens,
                    Combine(CASE tokens[l.i] = <<"*">> -> "Multiply"
                              [] tokens[l.i] = <<"/">> -> "Divide"
                              [] tokens[l.i] = <<"^">> -> "Power"
                              [] tokens[l.i] = <<"%">> -> "Modulo",
                            l.expr, parse_primary(tokens, l.i + 1)))
    ELSE l

\* the while loop of parse_mul_div; l carries `left` and the cursor
MulDivLoop(tokens, l) ==
    IF ~l.ok \/ l.i > Len(tokens) THEN l
    ELSE IF tokens[l.i] = <<"*">> \/ tokens[l.i] = <<"/">>
    THEN MulDivLoop(tokens,
                    Combine(IF tokens[l.i] = <<"*">> THEN "Multiply" ELSE "Divide",
                            l.expr, parse_primary(tokens, l.i + 1)))
    ELSE l

parse_mul_div(tokens, i) == MulDivLoop(tokens, parse_primary(tokens, i))

\* the while loop of parse_add_subtract taking its right operand from parse_primary
AddSubtractLoopPrimary(tokens, l) ==
    IF ~l.ok \/ l.i > Len(tokens) THEN l
    ELSE IF tokens[l.i] = <<"+">> \/ tokens[l.i] = <<"-">>
    THEN AddSubtractLoop(tokens,
                         Combine(IF tokens[l.i] = <<"+">> THEN "Add" ELSE "Subtract",
                                 l.expr, parse_primary(tokens, l.i + 1)))
    ELSE l

\* the while loop of parse_add_subtract; l carries `left` and the cursor
AddSubtractLoop(tokens, l) ==
    IF ~l.ok \/ l.i > Len(tokens) THEN l
    ELSE IF tokens[l.i] = <<"+">> \/ tokens[l.i] = <<"-">>
    THEN AddSubtractLoop(tokens,
                         Combine(IF tokens[l.i] = <<"+">> THEN "Add" ELSE "Subtract",
                                 l.expr, parse_mul_div(tokens, l.i + 1)))
    ELSE l

parse_add_subtract(tokens, i) == AddSubtractLoop(tokens, parse_mul_div(tokens, i))

\* a "to" clause that converts the last operand of the additive level only
ToClauseLastOperand(tokens, l) ==
    IF ~l.ok THEN l
    ELSE IF l.i <= Len(tokens) /\ to_lowercase(tokens[l.i]) = <<"t","o">>
    THEN IF l.i + 1 > Len(tokens) THEN PErr(<<"Expected currency after 'to'">>)
         ELSE IF l.expr.type = "BinaryOp"
         THEN POk(BinaryOp(l.expr.op, l.expr.left,
                           CurrencyConversion(l.expr.right,
                                              normalize_currency(tokens[l.i + 1]))),
                  l.i + 2)
         ELSE POk(CurrencyConversion(l.expr, normalize_currency(tokens[l.i + 1])), l.i + 2)
    ELSE l

\* parse_conversion after the additive level gave l: `?`, then the "to" clause
ToClause(tokens, l) ==
    IF ~l.ok THEN l
    ELSE IF l.i <= Len(tokens) /\ to_lowercase(tokens[l.i]) = <<"t","o">>
    THEN IF l.i + 1 > Len(tokens) THEN PErr(<<"Expected currency after 'to'">>)
         ELSE POk(CurrencyConversion(l.expr, normalize_currency(tokens[l.i + 1])), l.i + 2)
    ELSE l

parse_conversion(tokens, i) == ToClause(tokens, parse_add_subtract(tokens, i))

\* Result<Expression, String> of parse, with the token vector it was built from
ROk(e, tokens) == [ok |-> TRUE, expr |-> e, err |-> <<>>, tokens |-> tokens]
RErr(msg, tokens) == [ok |-> FALSE, expr |-> NoExpr, err |-> msg, tokens |-> tokens]

\* the Result of parse_conversion, with the cursor dropped
Outcome(tokens, r) == IF r.ok THEN ROk(r.expr, tokens) ELSE RErr(r.err, tokens)

\* parse_expression once the line is tokenized
ParseTokens(tokens) ==
    IF tokens = <<>> THEN RErr(<<"No tokens">>, tokens)
    ELSE Outcome(tokens, parse_conversion(tokens, 1))

parse_expression(input) == ParseTokens(tokenize(input))

RECURSIVE WordEnd(_, _)
\* end of the longest run of \w characters of s that starts at k
WordEnd(s, k) == IF k <= Len(s) /\ IsWordChar(s[k]) THEN WordEnd(s, k + 1) ELSE k
RECURSIVE SkipSpace(_, _)
SkipSpace(s, k) == IF k <= Len(s) /\ IsWhitespace(s[k]) THEN SkipSpace(s, k + 1) ELSE k

\* the captures of a match that starts with the word s[1..idEnd-1]
Captures(s, idEnd, eq, rest) ==
    [matched |-> /\ eq <= Len(s) /\ s[eq] = "="
                 /\ rest <= Len(s)
                 /\ \A k \in rest..Len(s) : s[k] # "\n",
     var |-> SubSeq(s, 1, idEnd - 1),
     rest |-> SubSeq(s, rest, Len(s))]

\* assignment_regex.captures: ^([a-zA-Z_]\w*)\s*=\s*(.+)$
assignment_regex(s) ==
    IF s = <<>> \/ ~IsWordChar(s[1]) \/ IsDigit(s[1])
    THEN [matched |-> FALSE, var |-> <<>>, rest |-> <<>>]
    ELSE Captures(s, WordEnd(s, 1), SkipSpace(s, WordEnd(s, 1)),
                  SkipSpace(s, SkipSpace(s, WordEnd(s, 1)) + 1))

\* Ok(Expression::Assignment { var, expr }) once the right-hand side gave r (`?` on r)
WrapAssignment(var, r) == IF r.ok THEN ROk(Assignment(var, r.expr), r.tokens) ELSE r

RECURSIVE parse(_), ParseTrimmed(_, _)
\* parse once the input is trimmed and matched against assignment_regex
ParseTrimmed(trimmed, caps) ==
    IF trimmed = <<>> THEN RErr(<<"Empty input">>, <<>>)
    ELSE IF caps.matched THEN WrapAssignment(caps.var, parse(caps.rest))
    ELSE parse_expression(trimmed)

parse(input) == ParseTrimmed(trim(input), assignment_regex(trim(input)))

----------------------------------------------------------------------------
(* currency.rs *)

\* Result<f64, String> of evaluate/convert, with the environment left behind
EOk(v, vs) == [ok |-> TRUE, val |-> v, err |-> <<>>, variables |-> vs]
EErr(msg, vs) == [ok |-> FALSE, val |-> NaN, err |-> msg, variables |-> vs]

\* a convert that looks the target up first
convert_target_first(rs, amount, from, to) ==
    IF to \notin DOMAIN rs
    THEN [ok |-> FALSE, val |-> NaN, err |-> <<"Unknown currency: ">> \o to]
    ELSE IF from \notin DOMAIN rs
    THEN [ok |-> FALSE, val |-> NaN, err |-> <<"Unknown currency: ">> \o from]
    ELSE [ok |-> TRUE, val |-> FMul(FDiv(amount, rs[from]), rs[to]), err |-> <<>>]

\* a convert that takes the amount as already in the reference currency
convert_from_reference(rs, amount, from, to) ==
    IF from \notin DOMAIN rs
    THEN [ok |-> FALSE, val |-> NaN, err |-> <<"Unknown currency: ">> \o from]
    ELSE IF to \notin DOMAIN rs
    THEN [ok |-> FALSE, val |-> NaN, err |-> <<"Unknown currency: ">> \o to]
    ELSE [ok |-> TRUE, val |-> FMul(amount, rs[to]), err |-> <<>>]

convert(rs, amount, from, to) ==
    IF from \notin DOMAIN rs
    THEN [ok |-> FALSE, val |-> NaN, err |-> <<"Unknown currency: ">> \o from]
    ELSE IF to \notin DOMAIN rs
    THEN [ok |-> FALSE, val |-> NaN, err |-> <<"Unknown currency: ">> \o to]
    ELSE [ok |-> TRUE, val |-> FMul(FDiv(amount, rs[from]), rs[to]), err |-> <<>>]

USD == <<"U","S","D">>
EUR == <<"E","U","R">>
INR == <<"I","N","R">>
\* the table CurrencyConverter::new builds when the fetch fails
FallbackRates == (USD :> Int2F(1)) @@ (EUR :> Rat(92, 100)) @@ (INR :> Rat(835, 10))

----------------------------------------------------------------------------
(* calc.rs: evaluator *)

RECURSIVE extract_currency(_)
\* a search that falls back to the right operand when the left one has no code
extract_currency_either(e) ==
    IF e.type = "CurrencyAnnotation" THEN [ok |-> TRUE, currency |-> e.currency, err |-> <<>>]
    ELSE IF e.type = "BinaryOp"
         THEN (IF extract_currency(e.left).ok THEN extract_currency(e.left)
               ELSE extract_currency(e.right))
    ELSE [ok |-> FALSE, currency |-> <<>>,
          err |-> <<"Expression does not have a currency annotation">>]

extract_currency(e) ==
    IF e.type = "CurrencyAnnotation" THEN [ok |-> TRUE, currency |-> e.currency, err |-> <<>>]
    ELSE IF e.type = "BinaryOp" THEN extract_currency(e.left)
    ELSE [ok |-> FALSE, currency |-> <<>>,
          err |-> <<"Expression does not have a currency annotation">>]

\* a match on op whose Divide arm divides without looking at the divisor
ApplyOpUnchecked(op, left_val, right_val, vs) ==
    CASE op = "Add" -> EOk(FAdd(left_val, right_val), vs)
      [] op = "Subtract" -> EOk(FSub(left_val, right_val), vs)
      [] op = "Multiply" -> EOk(FMul(left_val, right_val), vs)
      [] op = "Divide" -> EOk(FDiv(left_val, right_val), vs)
      [] op = "Power" -> EOk(FPow(left_val, right_val), vs)
      [] op = "Modulo" -> EOk(FRem(left_val, right_val), vs)

\* the match on op of the BinaryOp arm
ApplyOp(op, left_val, right_val, vs) ==
    CASE op = "Add" -> EOk(FAdd(left_val, right_val), vs)
      [] op = "Subtract" -> EOk(FSub(left_val, right_val), vs)
      [] op = "Multiply" -> EOk(FMul(left_val, right_val), vs)
      [] op = "Divide" -> IF FEq(right_val, Int2F(0))
                          THEN EErr(<<"Division by zero">>, vs)
                          ELSE EOk(FDiv(left_val, right_val), vs)
      [] op = "Power" -> EOk(FPow(left_val, right_val), vs)
      [] op = "Modulo" -> EOk(FRem(left_val, right_val), vs)

\* a Variable arm that reads an absent name as 0.0
LookupVariableDefault(vs, name) ==
    IF name \in DOMAIN vs THEN EOk(vs[name], vs) ELSE EOk(Int2F(0), vs)

\* the Variable arm: self.variables.get(name).copied().ok_or_else(..)
LookupVariable(vs, name) ==
    IF name \in DOMAIN vs THEN EOk(vs[name], vs)
    ELSE EErr(<<"Undefined variable: ">> \o name, vs)

\* an Assignment arm that inserts the name before it looks at the inner result
StoreValueEarly(v, var) ==
    IF ~v.ok THEN EErr(v.err, [k \in DOMAIN v.variables \cup {var} |->
                                  IF k = var THEN Int2F(0) ELSE v.variables[k]])
    ELSE EOk(v.val, [k \in DOMAIN v.variables \cup {var} |->
                        IF k = var THEN v.val ELSE v.variables[k]])

\* an Assignment arm that inserts only a name the environment does not hold yet
StoreValueKeepFirst(v, var) ==
    IF ~v.ok THEN v
    ELSE EOk(v.val, [k \in DOMAIN v.variables \cup {var} |->
                        IF k = var /\ k \notin DOMAIN v.variables THEN v.val
                        ELSE v.variables[k]])

\* the Assignment arm after its inner expression gave v: `?`, insert, Ok(value)
StoreValue(v, var) ==
    IF ~v.ok THEN v
    ELSE EOk(v.val, [k \in DOMAIN v.variables \cup {var} |->
                        IF k = var THEN v.val ELSE v.variables[k]])

\* the CurrencyConversion arm after its source gave amount and the
\* currency-extraction search gave source_currency
ConvertAmount(rs, amount, source_currency, target_currency) ==
    IF ~amount.ok THEN amount
    ELSE IF ~source_currency.ok THEN EErr(source_currency.err, amount.variables)
    ELSE IF convert(rs, amount.val, source_currency.currency, target_currency).ok
    THEN EOk(convert(rs, amount.val, source_currency.currency, target_currency).val,
             amount.variables)
    ELSE EErr(convert(rs, amount.val, source_currency.currency, target_currency).err,
              amount.variables)

\* the BinaryOp arm after both operands gave their results
Operate(op, left_val, right_val) ==
    IF ~right_val.ok THEN right_val
    ELSE ApplyOp(op, left_val.val, right_val.val, right_val.variables)

RECURSIVE evaluate(_, _, _), EvaluateRight(_, _, _)
\* the BinaryOp arm after its left operand gave left_val: `?`, then the right operand
EvaluateRight(rs, e, left_val) ==
    IF ~left_val.ok THEN left_val
    ELSE Operate(e.op, left_val, evaluate(rs, left_val.variables, e.right))

\* an evaluate whose CurrencyAnnotation arm brings the value to the reference currency
evaluate_annotation_converts(rs, vs, e) ==
    CASE e.type = "Number" -> EOk(e.n, vs)
      [] e.type = "Variable" -> LookupVariable(vs, e.name)
      [] e.type = "CurrencyAnnotation" ->
            ConvertAmount(rs, evaluate(rs, vs, e.value),
                          [ok |-> TRUE, currency |-> e.currency, err |-> <<>>], USD)
      [] e.type = "CurrencyConversion" ->
            ConvertAmount(rs, evaluate(rs, vs, e.source), extract_currency(e.source),
                          e.target_currency)
      [] e.type = "BinaryOp" -> EvaluateRight(rs, e, evaluate(rs, vs, e.left))
      [] e.type = "Assignment" -> StoreValue(evaluate(rs, vs, e.expr), e.var)

\* a BinaryOp arm that takes its right operand first
OperateLeft(op, left_val, right_val) ==
    IF ~left_val.ok THEN left_val
    ELSE ApplyOp(op, left_val.val, right_val.val, left_val.variables)

EvaluateLeft(rs, e, right_val) ==
    IF ~right_val.ok THEN right_val
    ELSE OperateLeft(e.op, evaluate(rs, right_val.variables, e.left), right_val)

evaluate_right_first(rs, vs, e) ==
    CASE e.type = "Number" -> EOk(e.n, vs)
      [] e.type = "Variable" -> LookupVariable(vs, e.name)
      [] e.type = "CurrencyAnnotation" -> evaluate(rs, vs, e.value)
      [] e.type = "CurrencyConversion" ->
            ConvertAmount(rs, evaluate(rs, vs, e.source), extract_currency(e.source),
                          e.target_currency)
      [] e.type = "BinaryOp" -> EvaluateLeft(rs, e, evaluate(rs, vs, e.right))
      [] e.type = "Assignment" -> StoreValue(evaluate(rs, vs, e.expr), e.var)

\* Calculator::evaluate on the calculator (rs, vs)
evaluate(rs, vs, e) ==
    CASE e.type = "Number" -> EOk(e.n, vs)
      [] e.type = "Variable" -> LookupVariable(vs, e.name)
      [] e.type = "CurrencyAnnotation" -> evaluate(rs, vs, e.value)
      [] e.type = "CurrencyConversion" ->
            ConvertAmount(rs, evaluate(rs, vs, e.source), extract_currency(e.source),
                          e.target_currency)
      [] e.type = "BinaryOp" -> EvaluateRight(rs, e, evaluate(rs, vs, e.left))
      [] e.type = "Assignment" -> StoreValue(evaluate(rs, vs, e.expr), e.var)

----------------------------------------------------------------------------
(* calc.rs: formatter *)

Reverse(s) == [k \in 1..Len(s) |-> s[Len(s) + 1 - k]]

\* i64::MAX.to_string()
I64MaxDigits == <<"9","2","2","3","3","7","2","0","3","6","8","5","4","7","7","5","8","0","7">>

\* (abs_value.floor() as i64).to_string(): the cast saturates and sends NaN to 0.
\* The i64 is carried as its decimal digits, which is all its users read of it.
integer_part(abs_value) ==
    IF IsNaN(abs_value) THEN <<"0">>
    ELSE IF IsInf(abs_value) THEN I64MaxDigits
    ELSE IntToDigits(FloorInt(abs_value))

\* ((abs_value - abs_value.floor()) * 100.0).round() as i64
decimal_part(abs_value) ==
    IF ~IsFinite(abs_value) THEN 0
    ELSE LET rem == abs_value.n % abs_value.d
         IN  (200 * rem + abs_value.d) \div (2 * abs_value.d)

RECURSIVE WesternLoop(_, _, _)
\* a loop that pushes the separator at every multiple of 3, the first digit included
WesternLoopFromZero(rev, i, acc) ==
    IF i >= Len(rev) THEN acc
    ELSE WesternLoop(rev, i + 1,
                     (IF i % 3 = 0 THEN Append(acc, ",") ELSE acc) \o <<rev[i + 1]>>)

\* the for loop of format_western_number over the reversed digits, i counted from 0
WesternLoop(rev, i, acc) ==
    IF i >= Len(rev) THEN acc
    ELSE WesternLoop(rev, i + 1,
                     (IF i > 0 /\ i % 3 = 0 THEN Append(acc, ",") ELSE acc) \o <<rev[i + 1]>>)
format_western_number(s) == Reverse(WesternLoop(Reverse(s), 0, <<>>))

RECURSIVE IndianLoop(_, _, _)
\* the for loop of format_indian_number
IndianLoop(rev, i, acc) ==
    IF i >= Len(rev) THEN acc
    ELSE IndianLoop(rev, i + 1,
                    (IF i = 3 THEN Append(acc, ",")
                     ELSE IF i > 3 /\ (i - 3) % 2 = 0 THEN Append(acc, ",")
                     ELSE acc) \o <<rev[i + 1]>>)
format_indian_number(s) == Reverse(IndianLoop(Reverse(s), 0, <<>>))

\* format!("{:02}", decimal_part)
Pad2(i) == IF i < 10 THEN <<"0">> \o IntToDigits(i) ELSE IntToDigits(i)

\* the integer_str of format_with_separator
grouped_integer(abs_value, indian) ==
    IF indian THEN format_indian_number(integer_part(abs_value))
    ELSE format_western_number(integer_part(abs_value))

format_with_separator(v, indian) ==
    LET is_negative == FLess(v, Int2F(0))
        abs_value == FAbs(v)
        sign == IF is_negative THEN <<"-">> ELSE <<>>
    IN  IF decimal_part(abs_value) > 0
        THEN sign \o grouped_integer(abs_value, indian) \o <<".">>
             \o Pad2(decimal_part(abs_value))
        ELSE sign \o grouped_integer(abs_value, indian)

RECURSIVE replace(_, _, _)
\* str::replace(from, to)
replace(s, from, to) ==
    IF Len(s) < Len(from) THEN s
    ELSE IF SubSeq(s, 1, Len(from)) = from
         THEN to \o replace(SubSeq(s, Len(from) + 1, Len(s)), from, to)
         ELSE <<Head(s)>> \o replace(Tail(s), from, to)

\* integer nearest to p/q (p >= 0, q > 0), ties to even
RoundHalfEven(p, q) ==
    LET f == p \div q
        r == p % q
    IN  IF 2 * r > q THEN f + 1
        ELSE IF 2 * r < q THEN f
        ELSE IF f % 2 = 0 THEN f ELSE f + 1

\* format!("{:.1}", abs_value / unit), unit one of 1e3, 1e5, 1e6, 1e7, 1e9
FormatOneDecimal(abs_value, unit) ==
    IF IsNaN(abs_value) THEN <<"N","a","N">>
    ELSE IF IsInf(abs_value) THEN <<"i","n","f">>
    ELSE LET tenths == RoundHalfEven(abs_value.n, abs_value.d * (unit \div 10))
         IN  IntToDigits(tenths \div 10) \o <<".">> \o IntToDigits(tenths % 10)

\* abs_value >= bound, bound an integer
AtLeast(abs_value, bound) ==
    IF IsNaN(abs_value) THEN FALSE
    ELSE IF IsInf(abs_value) THEN TRUE
    ELSE FloorInt(abs_value) >= bound

None == [some |-> FALSE, text |-> <<>>]
Some(text) == [some |-> TRUE, text |-> text]

\* format!("{:.1} <label>", abs_value / unit).replace(".0", "")
Labelled(abs_value, unit, label) ==
    Some(replace(FormatOneDecimal(abs_value, unit) \o <<" ">> \o label, <<".","0">>, <<>>))

estimate_number(v, indian) ==
    LET abs_value == FAbs(v) IN
    IF FLess(abs_value, Int2F(1000)) THEN None
    ELSE IF indian
    THEN IF AtLeast(abs_value, 10000000) THEN Labelled(abs_value, 10000000, <<"C","r">>)
         ELSE IF AtLeast(abs_value, 100000) THEN Labelled(abs_value, 100000, <<"L","a","c">>)
         ELSE Labelled(abs_value, 1000, <<"K">>)
    ELSE IF AtLeast(abs_value, 1000000000) THEN Labelled(abs_value, 1000000000, <<"B">>)
         ELSE IF AtLeast(abs_value, 1000000) THEN Labelled(abs_value, 1000000, <<"M">>)
         ELSE Labelled(abs_value, 1000, <<"K">>)

\* format!("{} ({})", formatted, est), or formatted alone
WithEstimate(text, est) ==
    IF est.some THEN text \o <<" ", "(">> \o est.text \o <<")">> ELSE text

format_number(v) == WithEstimate(format_with_separator(v, FALSE), estimate_number(v, FALSE))

\* the symbol lookup of format_currency
Symbol(currency) ==
    IF currency = USD THEN <<"$">>
    ELSE IF currency = EUR THEN <<"EURO SIGN">>
    ELSE IF currency = INR THEN <<"RUPEE SIGN">>
    ELSE currency

\* a format_currency that takes the grouping from the code and the vocabulary from nothing
format_currency_mixed(v, currency) ==
    Symbol(currency) \o <<" ">>
    \o WithEstimate(format_with_separator(v, currency = INR), estimate_number(v, FALSE))

format_currency(v, currency) ==
    Symbol(currency) \o <<" ">>
    \o WithEstimate(format_with_separator(v, currency = INR),
                    estimate_number(v, currency = INR))

----------------------------------------------------------------------------
(* calc.rs: evaluate_line *)

\* everything one call of evaluate_line computes: the parse result, the evaluate
\* result, the returned Option<String> and the environment left behind
LineOutcome(p, r, o) == [parsed |-> p, evaluated |-> r, out |-> o, variables |-> r.variables]

\* a match that also tags the result of an assigned conversion
AfterEvaluateTagsAssigned(p, r) ==
    LineOutcome(p, r,
                IF ~r.ok THEN Some(<<"Error: ">> \o r.err)
                ELSE IF p.expr.type = "CurrencyConversion"
                     THEN Some(format_currency(r.val, p.expr.target_currency))
                ELSE IF p.expr.type = "Assignment" /\ p.expr.expr.type = "CurrencyConversion"
                     THEN Some(format_currency(r.val, p.expr.expr.target_currency))
                     ELSE Some(format_number(r.val)))

\* the match on self.evaluate(&expr)
AfterEvaluate(p, r) ==
    LineOutcome(p, r,
                IF ~r.ok THEN Some(<<"Error: ">> \o r.err)
                ELSE IF p.expr.type = "CurrencyConversion"
                     THEN Some(format_currency(r.val, p.expr.target_currency))
                     ELSE Some(format_number(r.val)))

\* the match on parser.parse(line)
AfterParse(rs, vs, p) ==
    IF ~p.ok THEN LineOutcome(p, EErr(<<>>, vs), Some(<<"Parse error: ">> \o p.err))
    ELSE AfterEvaluate(p, evaluate(rs, vs, p.expr))

\* evaluate_line without the trim in its blank test
evaluate_line_untrimmed(rs, vs, input) ==
    IF input = <<>> THEN LineOutcome(RErr(<<>>, <<>>), EErr(<<>>, vs), None)
    ELSE AfterParse(rs, vs, parse(input))

evaluate_line(rs, vs, input) ==
    IF trim(input) = <<>> THEN LineOutcome(RErr(<<>>, <<>>), EErr(<<>>, vs), None)
    ELSE AfterParse(rs, vs, parse(input))

----------------------------------------------------------------------------
(* Inputs *)

RECURSIVE Join(_)
\* the lexemes of ws, separated by single spaces
Join(ws) == IF ws = <<>> THEN <<>>
            ELSE IF Len(ws) = 1 THEN ws[1]
            ELSE ws[1] \o <<" ">> \o Join(Tail(ws))

X == <<"x">>
Y == <<"y">>
K == <<"k">>
INF == <<"i","n","f">>
LAC == <<"L","a","c">>

\* the lexemes lines are generated from
Lexemes == { <<"0">>, <<"2",".","5">>, X, K, LAC, INF,
             <<"+">>, <<"/">>, <<"(">>, <<")">>, <<"=">>, <<"t","o">>, USD, <<"\t">> }
GenLines == { Join(ws) : ws \in UNION { [1..n -> Lexemes] : n \in 0..MaxLexemes } }

\* operands and operators of the precedence lines
Operands == { <<"2">>, <<"1","2">>, X }
Ops == { <<"+">>, <<"-">>, <<"*">>, <<"/">> }
Flat(a, o1, b, o2, c) == Join(<<a, o1, b, o2, c>>)
ParenLeft(a, o1, b, o2, c) == Join(<<<<"(">>, a, o1, b, <<")">>, o2, c>>)
ParenRight(a, o1, b, o2, c) == Join(<<a, o1, <<"(">>, b, o2, c, <<")">>>>)
PrecLines == { f : f \in UNION { { Flat(a, o1, b, o2, c), ParenLeft(a, o1, b, o2, c),
                                   ParenRight(a, o1, b, o2, c) } :
                                 a \in Operands, o1 \in Ops, b \in Operands,
                                 o2 \in Ops, c \in Operands } }

\* environments a session can have built before the call under study
Envs == { <<>>, (X :> Int2F(4)) @@ (K :> Int2F(7)) }

\* rate tables CurrencyConverter::new can end with: the fallback, or a fetched one
FetchedRates == (USD :> Int2F(1)) @@ (EUR :> Rat(9, 10)) @@ (INR :> Int2F(80))
                @@ (<<"G","B","P">> :> Rat(3, 4))
RateTables == { FallbackRates, FetchedRates }

\* the lines typed in a session
SessionNames == { X, INF }
SessionRhs == { <<"5">>, INF,
                Join(<<X, <<"+">>, <<"1">>>>),
                Join(<<<<"1">>, <<"/">>, <<"0">>>>),
                Join(<<<<"5">>, <<"+">>>>),
                Join(<<Y, <<"=">>, <<"7">>>>),
                Join(<<Y, <<"=">>, <<"1">>, <<"/">>, <<"0">>>>) }
\* conversions at the root of a line, inside parentheses, assigned and divided
TwoUsdTo(c) == Join(<<<<"2">>, USD, <<"t","o">>, c>>)
InParentheses(l) == Join(<<<<"(">>, l, <<")">>>>)
TagLines == { TwoUsdTo(<<"g","b","p">>), TwoUsdTo(<<"$">>),
              InParentheses(TwoUsdTo(INR)),
              Join(<<<<"2","0","0","0">>, USD, <<"t","o">>, INR>>),
              Join(<<X, <<"=">>, <<"2">>, INR, <<"t","o">>, INR>>),
              Join(<<InParentheses(TwoUsdTo(INR)), <<"/">>, <<"4">>>>),
              Join(<<TwoUsdTo(INR), <<"/">>, <<"4">>>>) }
SessionLines ==
    { Join(<<n, <<"=">>, r>>) : n \in SessionNames, r \in SessionRhs }
    \cup { X, Y, INF, <<>>, <<" ", " ">>, <<"\t", "\n">>, <<"(">>,
           Join(<<X, <<"*">>, <<"2">>>>),
           Join(<<<<"2">>, USD, <<"t","o">>, <<"e","u","r">>>>),
           Join(<<<<"2">>, <<"t","o">>, INR>>) }
    \cup TagLines

NoResult == [ok |-> FALSE, val |-> NaN, err |-> <<>>]

InRange(vs) == \A k \in DOMAIN vs :
                  IsFinite(vs[k]) => Abs(vs[k].n) <= MaxStored * vs[k].d /\ vs[k].d <= MaxStored

----------------------------------------------------------------------------
(* The session: Calculator::new, then evaluate_line calls *)

Idle == /\ line = <<>> /\ out = None /\ toks = <<>> /\ expr = NoExpr /\ result = NoResult
        /\ parse_error = <<>>
FormatterIdle == /\ value = Int2F(0) /\ indian_style = FALSE /\ formatted = <<>>
                 /\ integer_str = <<>> /\ estimation = None
ConverterIdle == /\ conv_amount = Int2F(0) /\ conv_from = <<>> /\ conv_to = <<>>
                 /\ converted = NoResult
\* what fetch_rates returned: nothing yet, Err, or Ok(api_rates)
NotFetched == [state |-> "pending", rates |-> <<>>]
FetchFailed == [state |-> "Err", rates |-> <<>>]
FetchOk(api_rates) == [state |-> "Ok", rates |-> api_rates]
\* the converter was constructed from the fetch that gave its table
Constructed == fetched = IF rates = FallbackRates THEN FetchFailed ELSE FetchOk(rates)
\* Editor::new, nothing rendered yet
EditorIdle == /\ lines = << <<>> >> /\ cursor_line = 0 /\ cursor_col = 0 /\ shown = <<>>

\* Calculator::new / CurrencyConverter::new
Init ==
    /\ variables = <<>>
    /\ rates \in RateTables
    /\ Constructed /\ EditorIdle
    /\ Idle /\ FormatterIdle /\ ConverterIdle
    /\ pc = "session"

\* the state after a call calc.evaluate_line(input) that computed r
Returned(input, r) ==
    /\ InRange(r.variables)
    /\ line' = input
    /\ out' = r.out
    /\ toks' = r.parsed.tokens
    /\ expr' = r.parsed.expr
    /\ parse_error' = r.parsed.err
    /\ result' = [ok |-> r.evaluated.ok, val |-> r.evaluated.val, err |-> r.evaluated.err]
    /\ variables' = r.variables
    /\ UNCHANGED <<rates, fetched, lines, cursor_line, cursor_col, shown, value, indian_style, formatted, integer_str, estimation,
                   conv_amount, conv_from, conv_to, converted>>

\* one call calc.evaluate_line(input)
EvaluateLineCall(input) == Returned(input, evaluate_line(rates, variables, input))

EvaluateLine ==
    /\ pc = "session"
    /\ \E input \in SessionLines : EvaluateLineCall(input)
    /\ pc' = pc

Next == EvaluateLine

Spec == Init /\ [][Next]_vars

----------------------------------------------------------------------------
(* evaluate_line on one generated line *)

\* amounts of a thousand and more, plain and converted between the currencies
Thousands == { Join(<<n, K>>) : n \in { <<"2">>, <<"2",".","5">> } }
Lakhs == { Join(<<n, m>>) : n \in { <<"2">>, <<"2",".","5">> },
                            m \in { LAC, <<"l","a","k","h">> } }
StyleTargets == { INR, <<"i","n","r">>, <<"RUPEE SIGN">>, USD, <<"e","u","r">>,
                  <<"g","b","p">> }
StyleLines ==
    Thousands \cup Lakhs \cup { <<"2"," ","c","r","o","r","e">> }
    \cup { Join(<<a, USD, <<"t","o">>, t>>) : a \in Thousands \cup Lakhs, t \in StyleTargets }
    \cup { Join(<<a, INR, <<"t","o">>, t>>) : a \in Thousands, t \in StyleTargets }

LineInit ==
    /\ variables \in Envs
    /\ rates = FallbackRates
    /\ Constructed /\ EditorIdle
    /\ line \in GenLines \cup PrecLines \cup StyleLines
    /\ out = None /\ toks = <<>> /\ expr = NoExpr /\ result = NoResult
    /\ parse_error = <<>>
    /\ FormatterIdle /\ ConverterIdle
    /\ pc = "call"

EvaluateGivenLine ==
    /\ pc = "call"
    /\ EvaluateLineCall(line)
    /\ pc' = "done"

LineNext == EvaluateGivenLine

LineSpec == LineInit /\ [][LineNext]_vars

----------------------------------------------------------------------------
(* parse on one line *)

TO == <<"t","o">>
\* the lexemes the lines handed to parse are generated from
ParseLexemes == { <<"2">>, X, <<"2","x">>, <<"+">>, <<"*">>, <<"^">>, <<"%">>, <<"(">>, <<")">>,
                  <<"=">>, TO, USD, <<"$">> }
ParseGenLines == { Join(ws) : ws \in UNION { [1..n -> ParseLexemes] : n \in 0..MaxLexemes } }

\* well-formed expressions, and what the malformed lines are built from
WellFormed == { <<"2">>, X, Join(<<<<"2">>, <<"+">>, X>>), Join(<<<<"(">>, X, <<")">>>>),
                Join(<<<<"2">>, USD>>) }
BinaryOperators == { <<"+">>, <<"-">>, <<"*">>, <<"/">> }
\* tokens that are neither a number, an identifier ([a-zA-Z_]\w*) nor "("
NotOperands == { <<")">>, <<"+">>, <<"*">>, <<"=">>, <<"$">>, <<"2","x">>, <<"2",".","5",".">> }
EmptyLines == { <<>>, <<" ">>, <<" ", "\t", " ">> }
UnclosedLines == { Join(<<<<"(">>, e>>) : e \in WellFormed }
                 \cup { Join(<<<<"2">>, <<"*">>, <<"(">>, e>>) : e \in WellFormed }
NoOperandLines == { Join(<<e, o>>) : e \in WellFormed, o \in BinaryOperators }
NotOperandLines == NotOperands
                   \cup { Join(<<e, o, t>>) : e \in WellFormed, o \in BinaryOperators,
                                              t \in NotOperands }
NoTargetLines == { Join(<<e, t>>) : e \in WellFormed, t \in { TO, <<"T","O">>, <<"T","o">> } }

\* conversions of a sum: a + b to c and (a + b) to c
Summands == { <<"2">>, X, Join(<<<<"5">>, USD>>) }
Keywords == { TO, <<"T","O">>, <<"t","O">> }
Targets == { USD, <<"i","n","r">>, <<"$">>, <<"g","b","p">> }
SumTo(a, b, t, c) == Join(<<a, <<"+">>, b, t, c>>)
ParenSumTo(a, b, t, c) == Join(<<<<"(">>, a, <<"+">>, b, <<")">>, t, c>>)
ConversionLines == { SumTo(a, b, t, c) : a \in Summands, b \in Summands, t \in Keywords,
                                         c \in Targets }
                   \cup { ParenSumTo(a, b, t, c) : a \in Summands, b \in Summands,
                                                   t \in Keywords, c \in Targets }

\* "^" and "%" after a sum or a product
PowerLines == { Join(<<a, o, b, p, c>>) : a \in { <<"2">>, X }, o \in { <<"+">>, <<"*">> },
                                          b \in { <<"2">>, X }, p \in { <<"^">>, <<"%">> },
                                          c \in { <<"2">>, X } }

\* a number, the token after it, and a target
CodeTokens == { USD, <<"u","s","d">>, <<"U","s","d">>, <<"e","u","r">>, <<"i","n","r">>,
                <<"$">>, <<"EURO SIGN">>, <<"RUPEE SIGN">>, <<"g","b","p">>,
                <<"G","B","P">>, <<"r","s">>, X }
AnnotationLines ==
    { Join(<<n, c>>) : n \in { <<"2">>, <<"2",".","5">> }, c \in CodeTokens }
    \cup { Join(<<n, c, TO, t>>) : n \in { <<"2">>, <<"2",".","5">> }, c \in CodeTokens,
                                   t \in CodeTokens }

ParseLines == ParseGenLines \cup EmptyLines \cup UnclosedLines \cup NoOperandLines
              \cup NotOperandLines \cup NoTargetLines \cup ConversionLines \cup PowerLines
              \cup AnnotationLines

ParseInit ==
    /\ variables = <<>>
    /\ rates \in RateTables
    /\ Constructed /\ EditorIdle
    /\ line \in ParseLines
    /\ out = None /\ toks = <<>> /\ expr = NoExpr /\ result = NoResult
    /\ parse_error = <<>>
    /\ FormatterIdle /\ ConverterIdle
    /\ pc = "call"

\* the state after a call parser.parse(line) that computed p
Parsed(p) ==
    /\ toks' = p.tokens
    /\ expr' = p.expr
    /\ parse_error' = p.err
    /\ pc' = IF p.ok THEN "parsed" ELSE "failed"
    /\ UNCHANGED <<variables, rates, fetched, lines, cursor_line, cursor_col, shown, line, out, result, value, indian_style, formatted,
                   integer_str, estimation, conv_amount, conv_from, conv_to, converted>>

\* one call parser.parse(line)
Parse == pc = "call" /\ Parsed(parse(line))

ParseNext == Parse

ParseSpec == ParseInit /\ [][ParseNext]_vars

----------------------------------------------------------------------------
(* evaluate on one directly constructed tree *)

Leaves == { Number(Int2F(i)) : i \in 0..MaxLeaf }
          \cup { Number(NaN), Variable(X), Variable(Y) }
Operand1 == Leaves \cup { Assignment(X, l) : l \in Leaves }
            \cup { CurrencyAnnotation(Number(Int2F(2)), c) : c \in {USD, INR} }
            \cup { CurrencyAnnotation(Number(Int2F(3)), EUR) }
\* an amount tagged with a currency code, and the sources of the conversions
Tagged(c) == CurrencyAnnotation(Number(Int2F(2)), c)
ConversionSources ==
    { Tagged(INR), Number(Int2F(2)), Variable(X), Variable(Y),
      BinaryOp("Add", Tagged(USD), Number(Int2F(1))),
      BinaryOp("Add", Number(Int2F(1)), Tagged(USD)),
      BinaryOp("Multiply", BinaryOp("Add", Tagged(EUR), Number(Int2F(1))), Tagged(INR)),
      BinaryOp("Add", BinaryOp("Add", Number(Int2F(1)), Tagged(EUR)), Tagged(INR)),
      BinaryOp("Add", Tagged(<<"G","B","P">>), Tagged(USD)),
      Assignment(X, Tagged(USD)),
      BinaryOp("Divide", Tagged(USD), Number(Int2F(0))),
      BinaryOp("Add", Tagged(EUR), Variable(Y)),
      CurrencyConversion(Tagged(USD), INR) }
\* assignments whose inner expression assigns again, directly or inside an operand
NestedAssignments ==
    { Assignment(Y, BinaryOp(op, Assignment(X, l), r)) :
        op \in {"Add", "Divide"}, l \in Leaves, r \in Leaves }
    \cup { Assignment(Y, Assignment(X, l)) : l \in Leaves }
    \cup { Assignment(Y, l) : l \in Leaves }
Trees == Operand1
         \cup { BinaryOp(op, l, r) : op \in Operator, l \in Operand1, r \in Operand1 }
         \cup NestedAssignments
         \cup { CurrencyConversion(s, c) : s \in ConversionSources,
                                            c \in { USD, EUR, <<"X","Y","Z">> } }
TreeEnvs == { <<>>, (X :> Int2F(0)), (X :> Int2F(3)) @@ (Y :> Int2F(0)),
              (X :> Int2F(2)) @@ (Y :> Rat(1, 2)) }

EvalInit ==
    /\ variables \in TreeEnvs
    /\ rates = FallbackRates
    /\ Constructed /\ EditorIdle
    /\ expr \in Trees
    /\ line = <<>> /\ out = None /\ toks = <<>> /\ result = NoResult
    /\ parse_error = <<>>
    /\ FormatterIdle /\ ConverterIdle
    /\ pc = "call"

\* the state after a call calc.evaluate(&expr) that computed r
Evaluated(r) ==
    /\ result' = [ok |-> r.ok, val |-> r.val, err |-> r.err]
    /\ variables' = r.variables
    /\ pc' = "done"
    /\ UNCHANGED <<rates, fetched, lines, cursor_line, cursor_col, shown, line, out, toks, expr, parse_error, value, indian_style, formatted,
                   integer_str, estimation, conv_amount, conv_from, conv_to, converted>>

\* one call calc.evaluate(&expr)
Evaluate == pc = "call" /\ Evaluated(evaluate(rates, variables, expr))

EvalNext == Evaluate

EvalSpec == EvalInit /\ [][EvalNext]_vars

----------------------------------------------------------------------------
(* the CurrencyConversion arm of evaluate, statement by statement *)

Conversions == { t \in Trees : t.type = "CurrencyConversion" }

ConversionInit ==
    /\ variables \in TreeEnvs
    /\ rates = FallbackRates
    /\ Constructed /\ EditorIdle
    /\ expr \in Conversions
    /\ line = <<>> /\ out = None /\ toks = <<>> /\ result = NoResult
    /\ parse_error = <<>>
    /\ FormatterIdle /\ ConverterIdle
    /\ pc = "call"

\* the state after self.evaluate(source) gave amount
SourceEvaluated(amount) ==
    /\ result' = [ok |-> amount.ok, val |-> amount.val, err |-> amount.err]
    /\ variables' = amount.variables
    /\ conv_amount' = IF amount.ok THEN amount.val ELSE conv_amount
    /\ pc' = IF amount.ok THEN "amount" ELSE "done"
    /\ UNCHANGED <<rates, fetched, lines, cursor_line, cursor_col, shown, line, out, toks, expr, parse_error, value, indian_style, formatted,
                   integer_str, estimation, conv_from, conv_to, converted>>

\* let amount = self.evaluate(source)?;
EvaluateSource == pc = "call" /\ SourceEvaluated(evaluate(rates, variables, expr.source))

\* the state after self.extract_currency(source) gave source_currency
CurrencyExtracted(source_currency) ==
    /\ conv_from' = IF source_currency.ok THEN source_currency.currency ELSE conv_from
    /\ result' = IF source_currency.ok THEN result
                 ELSE [ok |-> FALSE, val |-> NaN, err |-> source_currency.err]
    /\ pc' = IF source_currency.ok THEN "currency" ELSE "done"
    /\ UNCHANGED <<variables, rates, fetched, lines, cursor_line, cursor_col, shown, line, out, toks, expr, parse_error, value, indian_style,
                   formatted, integer_str, estimation, conv_amount, conv_to, converted>>

\* an extraction whose failure does not end the arm
ExtractCurrencyDeferred ==
    /\ pc = "amount"
    /\ conv_from' = extract_currency(expr.source).currency
    /\ pc' = "currency"
    /\ UNCHANGED <<variables, rates, fetched, lines, cursor_line, cursor_col, shown, line, out, toks, expr, parse_error, result, value,
                   indian_style, formatted, integer_str, estimation, conv_amount, conv_to,
                   converted>>

\* let source_currency = self.extract_currency(source)?;
ExtractCurrency == pc = "amount" /\ CurrencyExtracted(extract_currency(expr.source))

\* self.converter.convert(amount, &source_currency, target_currency)
CallConvert ==
    /\ pc = "currency"
    /\ conv_to' = expr.target_currency
    /\ converted' = convert(rates, conv_amount, conv_from, expr.target_currency)
    /\ result' = converted'
    /\ pc' = "done"
    /\ UNCHANGED <<variables, rates, fetched, lines, cursor_line, cursor_col, shown, line, out, toks, expr, parse_error, value, indian_style,
                   formatted, integer_str, estimation, conv_amount, conv_from>>

ConversionNext == EvaluateSource \/ ExtractCurrency \/ CallConvert

ConversionSpec == ConversionInit /\ [][ConversionNext]_vars

----------------------------------------------------------------------------
(* a calculator that receives evaluate and evaluate_line calls in any order *)

One == Number(Int2F(1))
\* trees with an Assignment at the root, in an operand, or nowhere
CallTrees ==
    { Assignment(X, One), Assignment(Y, Variable(X)) }
    \cup { Assignment(Y, BinaryOp(op, Assignment(X, One), r)) :
             op \in {"Add", "Divide"}, r \in { Number(Int2F(0)), Variable(X) } }
    \cup { Assignment(Y, Assignment(X, Number(Int2F(3)))),
           BinaryOp("Add", Variable(X), Assignment(X, Number(Int2F(2)))),
           BinaryOp("Divide", Assignment(Y, Number(Int2F(3))), Number(Int2F(0))),
           CurrencyConversion(Assignment(X, Tagged(USD)), EUR),
           CurrencyConversion(BinaryOp("Add", Tagged(USD), Assignment(Y, One)),
                              <<"X","Y","Z">>) }
    \cup { Variable(X), Number(NaN), BinaryOp("Add", Variable(X), Variable(Y)),
           BinaryOp("Divide", Variable(Y), Number(Int2F(0))),
           CurrencyConversion(Tagged(USD), EUR),
           CurrencyConversion(Variable(X), EUR) }
CallLines == { Join(<<X, <<"=">>, <<"5">>>>), Join(<<Y, <<"=">>, X, <<"+">>, <<"1">>>>),
               Join(<<X, <<"=">>, Y, <<"=">>, <<"4">>>>),
               Join(<<X, <<"=">>, <<"1">>, <<"/">>, <<"0">>>>),
               X, Join(<<X, <<"*">>, Y>>), <<>>, <<"(">> }

\* what the one fetch of a session can give: an error, or a table of the service
ApiTables == { FetchedRates, (EUR :> Int2F(1)) }
FetchOutcomes == { FetchFailed } \cup { FetchOk(t) : t \in ApiTables }
\* the targets of the convert calls made between the evaluations
CallCodes == { EUR, <<"X","Y","Z">> }

\* Calculator::new entered: HashMap::new() for the variables and for the rates
CallsInit ==
    /\ variables = <<>>
    /\ rates = <<>>
    /\ fetched = NotFetched
    /\ EditorIdle
    /\ Idle /\ FormatterIdle /\ ConverterIdle
    /\ pc = "new"

\* Self::fetch_rates().await
FetchRates ==
    /\ pc = "new"
    /\ fetched' \in FetchOutcomes
    /\ pc' = "fetched"
    /\ UNCHANGED <<variables, rates, lines, cursor_line, cursor_col, shown, line, out, toks,
                   expr, parse_error, result, value, indian_style, formatted, integer_str,
                   estimation, conv_amount, conv_from, conv_to, converted>>

\* a constructor that fetches again when the fetch failed
NewConverterRetry ==
    /\ pc = "fetched"
    /\ rates' = IF fetched.state = "Ok" THEN fetched.rates ELSE rates
    /\ fetched' = IF fetched.state = "Ok" THEN fetched ELSE NotFetched
    /\ pc' = IF fetched.state = "Ok" THEN "calls" ELSE "new"
    /\ UNCHANGED <<variables, lines, cursor_line, cursor_col, shown, line, out, toks,
                   expr, parse_error, result, value, indian_style, formatted, integer_str,
                   estimation, conv_amount, conv_from, conv_to, converted>>

\* the match on the fetch and Ok(Self { rates }), then Calculator::new's Ok(Self {..})
NewConverter ==
    /\ pc = "fetched"
    /\ rates' = IF fetched.state = "Ok" THEN fetched.rates ELSE FallbackRates
    /\ pc' = "calls"
    /\ UNCHANGED <<variables, fetched, lines, cursor_line, cursor_col, shown, line, out, toks,
                   expr, parse_error, result, value, indian_style, formatted, integer_str,
                   estimation, conv_amount, conv_from, conv_to, converted>>

\* converter.convert(amount, from, to) between the calls of the calculator
ConvertCall ==
    /\ pc = "calls"
    /\ \E t \in CallCodes :
          /\ conv_amount' = Rat(5, 2) /\ conv_from' = USD /\ conv_to' = t
          /\ converted' = convert(rates, Rat(5, 2), USD, t)
    /\ UNCHANGED <<variables, rates, fetched, lines, cursor_line, cursor_col, shown, line,
                   out, toks, expr, parse_error, result, value, indian_style, formatted,
                   integer_str, estimation, pc>>

\* calc.evaluate(&e) on a tree built by the caller
EvaluateTree ==
    /\ pc = "calls"
    /\ \E e \in CallTrees :
          /\ InRange(evaluate(rates, variables, e).variables)
          /\ expr' = e
          /\ result' = [ok |-> evaluate(rates, variables, e).ok,
                        val |-> evaluate(rates, variables, e).val,
                        err |-> evaluate(rates, variables, e).err]
          /\ variables' = evaluate(rates, variables, e).variables
    /\ line' = <<>> /\ out' = None /\ toks' = <<>> /\ parse_error' = <<>>
    /\ UNCHANGED <<rates, fetched, lines, cursor_line, cursor_col, shown, value, indian_style, formatted, integer_str, estimation,
                   conv_amount, conv_from, conv_to, converted, pc>>

\* calc.evaluate_line(input) on the same calculator
EvaluateLineBetween ==
    /\ pc = "calls"
    /\ \E input \in CallLines : EvaluateLineCall(input)
    /\ pc' = pc

CallsNext == FetchRates \/ NewConverter \/ EvaluateTree \/ EvaluateLineBetween
             \/ ConvertCall

CallsSpec == CallsInit /\ [][CallsNext]_vars

----------------------------------------------------------------------------
(* convert on one amount, there and back *)

Amounts == { Int2F(0), Int2F(1), Int2F(100), Rat(5, 2), Int2F(-3), NaN, Inf(1), Inf(-1) }
Codes == { USD, EUR, INR, <<"G","B","P">>, <<"X","Y","Z">> }

ConvertInit ==
    /\ variables \in Envs
    /\ rates \in RateTables
    /\ Constructed /\ EditorIdle
    /\ Idle /\ FormatterIdle
    /\ conv_amount \in Amounts
    /\ conv_from \in Codes
    /\ conv_to \in Codes
    /\ converted = NoResult
    /\ pc = "call"

\* the state after a convert call that computed c
Converted(c, next) ==
    /\ converted' = c
    /\ pc' = IF c.ok THEN next ELSE "failed"
    /\ UNCHANGED <<variables, rates, fetched, lines, cursor_line, cursor_col, shown, line, out, toks, expr, parse_error, result, value,
                   indian_style, formatted, integer_str, estimation, conv_amount,
                   conv_from, conv_to>>

\* converter.convert(amount, from, to)
Convert ==
    /\ pc = "call"
    /\ Converted(convert(rates, conv_amount, conv_from, conv_to), "converted")

\* converter.convert(converted, to, from) on what the first call gave
ConvertBack ==
    /\ pc = "converted"
    /\ Converted(convert(rates, converted.val, conv_to, conv_from), "back")

ConvertNext == Convert \/ ConvertBack

ConvertSpec == ConvertInit /\ [][ConvertNext]_vars

----------------------------------------------------------------------------
(* the formatter on one value *)

\* fractional parts, as n/d
Fractions == { [n |-> f, d |-> 1000] : f \in {0, 1, 4, 5, 50, 125, 250, 560, 994, 995, 999} }
             \cup { [n |-> 1, d |-> 3], [n |-> 2, d |-> 3] }
Magnitudes == { m * Pow10(k) - o : m \in 0..MaxMantissa, k \in 0..8, o \in {0, 1} } \cap Nat
FiniteValues == { Rat(i * f.d + f.n, f.d) : i \in { j \in Magnitudes : j < 2000000 },
                                            f \in Fractions }
                \cup { Int2F(i) : i \in Magnitudes }
FormatValues == FiniteValues \cup { FNeg(v) : v \in FiniteValues }
                \cup { NaN, Inf(1), Inf(-1) }

FormatInit ==
    /\ variables = <<>>
    /\ rates = FallbackRates
    /\ Constructed /\ EditorIdle
    /\ Idle
    /\ value \in FormatValues
    /\ indian_style \in BOOLEAN
    /\ formatted = <<>> /\ integer_str = <<>> /\ estimation = None
    /\ ConverterIdle
    /\ pc = "call"

\* format_with_separator(value, indian_style) and estimate_number(value, indian_style),
\* the two calls format_number and format_currency make
Format ==
    /\ pc = "call"
    /\ formatted' = format_with_separator(value, indian_style)
    /\ integer_str' = grouped_integer(FAbs(value), indian_style)
    /\ estimation' = estimate_number(value, indian_style)
    /\ pc' = "done"
    /\ UNCHANGED <<variables, rates, fetched, lines, cursor_line, cursor_col, shown, line, out, toks, expr, parse_error, result, value,
                   indian_style, conv_amount, conv_from, conv_to, converted>>

FormatNext == Format

FormatSpec == FormatInit /\ [][FormatNext]_vars

----------------------------------------------------------------------------
(* editor.rs, ui.rs, main.rs: the editor under the main loop *)

\* most lines the buffer holds in the runs of the editor
MaxLines == 2

\* char::len_utf8 of a character of the model
len_utf8(c) == IF c \in {"EURO SIGN", "RUPEE SIGN"} THEN 3 ELSE 1

RECURSIVE str_len(_)
\* String::len: the length of s in bytes
str_len(s) == IF s = <<>> THEN 0 ELSE len_utf8(Head(s)) + str_len(Tail(s))

\* the number of characters of s that end at or before byte idx
CharsBefore(s, idx) ==
    Cardinality({ k \in 1..Len(s) : str_len(SubSeq(s, 1, k)) <= idx })

\* str::is_char_boundary: FALSE inside a character and past the end
is_char_boundary(s, idx) == idx = str_len(SubSeq(s, 1, CharsBefore(s, idx)))

\* s[..idx] and s[idx..] at a character boundary
StrBefore(s, idx) == SubSeq(s, 1, CharsBefore(s, idx))
StrFrom(s, idx) == SubSeq(s, CharsBefore(s, idx) + 1, Len(s))

\* the editor's fields, with whether the operation on them panicked
Ed(ls, cl, cc) == [lines |-> ls, cursor_line |-> cl, cursor_col |-> cc, panicked |-> FALSE]
Panic(ed) == [ed EXCEPT !.panicked = TRUE]
\* self.lines[self.cursor_line]
Current(ed) == ed.lines[ed.cursor_line + 1]
\* Vec::remove(i) and Vec::insert(i, s), i counted from 0
VecRemove(ls, i) == SubSeq(ls, 1, i) \o SubSeq(ls, i + 2, Len(ls))
VecInsert(ls, i, s) == SubSeq(ls, 1, i) \o <<s>> \o SubSeq(ls, i + 1, Len(ls))

\* String::insert and String::remove on the current line: both panic off a
\* character boundary, remove also at the end of the string
StringInsert(ed, idx, c) ==
    IF ~is_char_boundary(Current(ed), idx) THEN Panic(ed)
    ELSE [ed EXCEPT !.lines[ed.cursor_line + 1] =
                        StrBefore(@, idx) \o <<c>> \o StrFrom(@, idx)]
StringRemove(ed, idx) ==
    IF ~is_char_boundary(Current(ed), idx) \/ idx >= str_len(Current(ed)) THEN Panic(ed)
    ELSE [ed EXCEPT !.lines[ed.cursor_line + 1] =
                        StrBefore(@, idx) \o Tail(StrFrom(@, idx))]

\* the statements after the String call, skipped when it panicked
Then(ed, next) == IF ed.panicked THEN ed ELSE next

insert_char(ed, c) ==
    Then(StringInsert(ed, ed.cursor_col, c),
         [StringInsert(ed, ed.cursor_col, c) EXCEPT !.cursor_col = @ + 1])

backspace(ed) ==
    IF ed.cursor_col > 0
    THEN Then(StringRemove(ed, ed.cursor_col - 1),
              [StringRemove(ed, ed.cursor_col - 1) EXCEPT !.cursor_col = @ - 1])
    ELSE IF ed.cursor_line > 0
    THEN [ed EXCEPT !.lines = [VecRemove(@, ed.cursor_line)
                                   EXCEPT ![ed.cursor_line] = @ \o Current(ed)],
                    !.cursor_line = @ - 1,
                    !.cursor_col = str_len(ed.lines[ed.cursor_line])]
    ELSE ed

delete(ed) ==
    IF ed.cursor_col < str_len(Current(ed)) THEN StringRemove(ed, ed.cursor_col)
    ELSE IF ed.cursor_line < Len(ed.lines) - 1
    THEN [ed EXCEPT !.lines = [VecRemove(@, ed.cursor_line + 1)
                                   EXCEPT ![ed.cursor_line + 1] =
                                              @ \o ed.lines[ed.cursor_line + 2]]]
    ELSE ed

new_line(ed) ==
    IF ~is_char_boundary(Current(ed), ed.cursor_col) THEN Panic(ed)
    ELSE [ed EXCEPT !.lines = VecInsert([@ EXCEPT ![ed.cursor_line + 1] =
                                             StrBefore(@, ed.cursor_col)],
                                        ed.cursor_line + 1,
                                        StrFrom(Current(ed), ed.cursor_col)),
                    !.cursor_line = @ + 1,
                    !.cursor_col = 0]

move_left(ed) ==
    IF ed.cursor_col > 0 THEN [ed EXCEPT !.cursor_col = @ - 1]
    ELSE IF ed.cursor_line > 0
    THEN [ed EXCEPT !.cursor_line = @ - 1,
                    !.cursor_col = str_len(ed.lines[ed.cursor_line])]
    ELSE ed

move_right(ed) ==
    IF ed.cursor_col < str_len(Current(ed)) THEN [ed EXCEPT !.cursor_col = @ + 1]
    ELSE IF ed.cursor_line < Len(ed.lines) - 1
    THEN [ed EXCEPT !.cursor_line = @ + 1, !.cursor_col = 0]
    ELSE ed

\* the clamp of cursor_col shared by move_up and move_down
Clamp(ed) ==
    IF ed.cursor_col > str_len(Current(ed))
    THEN [ed EXCEPT !.cursor_col = str_len(Current(ed))]
    ELSE ed

move_up(ed) ==
    IF ed.cursor_line > 0 THEN Clamp([ed EXCEPT !.cursor_line = @ - 1]) ELSE ed

move_down(ed) ==
    IF ed.cursor_line < Len(ed.lines) - 1 THEN Clamp([ed EXCEPT !.cursor_line = @ + 1])
    ELSE ed

move_home(ed) == [ed EXCEPT !.cursor_col = 0]

move_end(ed) == [ed EXCEPT !.cursor_col = str_len(Current(ed))]

\* one row of the frame: the buffer line and the text of the results panel
Row(input, o) == [line |-> input, text |-> IF o.some THEN <<"= ">> \o o.text ELSE <<>>]

RECURSIVE render_results_panel(_, _, _, _)
RECURSIVE RenderRest(_, _, _, _)
\* the map over editor.lines: one evaluate_line per line on the calculator
render_results_panel(rs, vs, ls, rows) ==
    IF ls = <<>> THEN [shown |-> rows, variables |-> vs]
    ELSE RenderRest(rs, ls, rows, evaluate_line(rs, vs, Head(ls)))
RenderRest(rs, ls, rows, r) ==
    render_results_panel(rs, r.variables, Tail(ls), Append(rows, Row(Head(ls), r.out)))

\* the slice &cursor_line[..editor.cursor_col] of render_input_panel panics
InputPanelPanics ==
    /\ cursor_line < Len(lines)
    /\ ~is_char_boundary(lines[cursor_line + 1], cursor_col)

\* the characters typed and the lines the buffer holds in the runs
KeyChars == { "x", "=", "+", "1", "EURO SIGN" }
Prefixes(s) == { SubSeq(s, 1, k) : k \in 0..Len(s) }
TypedLines == Prefixes(<<"x","=","1">>) \cup Prefixes(<<"x","=","x","+","1">>)
              \cup { <<"EURO SIGN">> }
InBuffer(ls) == Len(ls) <= MaxLines /\ \A i \in 1..Len(ls) : ls[i] \in TypedLines

\* Calculator::new().await, Editor::new(calculator), before the first draw
EditorInit ==
    /\ variables = <<>>
    /\ rates = FallbackRates
    /\ Constructed /\ EditorIdle
    /\ Idle /\ FormatterIdle /\ ConverterIdle
    /\ pc = "draw"

\* the frame was drawn: the results and the calculator after the pass
Rendered(r) ==
    /\ InRange(r.variables)
    /\ shown' = r.shown
    /\ variables' = r.variables
    /\ pc' = "key"

\* a render pass that starts from a fresh calculator environment
DrawFresh ==
    /\ pc = "draw"
    /\ IF InputPanelPanics
       THEN pc' = "panicked" /\ UNCHANGED <<variables, shown>>
       ELSE Rendered(render_results_panel(rates, <<>>, lines, <<>>))
    /\ UNCHANGED <<rates, fetched, lines, cursor_line, cursor_col, line, out, toks, expr,
                   parse_error, result, value, indian_style, formatted, integer_str,
                   estimation, conv_amount, conv_from, conv_to, converted>>

\* terminal.draw(render_ui): the input panel, then the results panel
Draw ==
    /\ pc = "draw"
    /\ IF InputPanelPanics
       THEN pc' = "panicked" /\ UNCHANGED <<variables, shown>>
       ELSE Rendered(render_results_panel(rates, variables, lines, <<>>))
    /\ UNCHANGED <<rates, fetched, lines, cursor_line, cursor_col, line, out, toks, expr,
                   parse_error, result, value, indian_style, formatted, integer_str,
                   estimation, conv_amount, conv_from, conv_to, converted>>

Editor == Ed(lines, cursor_line, cursor_col)

\* editor.handle_key(key) left the editor as ed, or panicked
Handled(ed) ==
    /\ pc = "key"
    /\ InBuffer(ed.lines)
    /\ lines' = ed.lines
    /\ cursor_line' = ed.cursor_line
    /\ cursor_col' = ed.cursor_col
    /\ pc' = IF ed.panicked THEN "panicked" ELSE "draw"
    /\ UNCHANGED <<variables, rates, fetched, shown, line, out, toks, expr, parse_error,
                   result, value, indian_style, formatted, integer_str, estimation,
                   conv_amount, conv_from, conv_to, converted>>

KeyChar == \E c \in KeyChars : Handled(insert_char(Editor, c))
KeyBackspace == Handled(backspace(Editor))
KeyDelete == Handled(delete(Editor))
KeyEnter == Handled(new_line(Editor))
KeyLeft == Handled(move_left(Editor))
KeyRight == Handled(move_right(Editor))
KeyUp == Handled(move_up(Editor))
KeyDown == Handled(move_down(Editor))
KeyHome == Handled(move_home(Editor))
KeyEnd == Handled(move_end(Editor))
\* an event that is no key, or a key code handle_key ignores
OtherEvent == Handled(Editor)

\* should_quit: Ctrl-C leaves the loop
Quit ==
    /\ pc = "key"
    /\ pc' = "quit"
    /\ UNCHANGED <<variables, rates, fetched, lines, cursor_line, cursor_col, shown, line,
                   out, toks, expr, parse_error, result, value, indian_style, formatted,
                   integer_str, estimation, conv_amount, conv_from, conv_to, converted>>

EditorNext ==
    \/ Draw \/ KeyChar \/ KeyBackspace \/ KeyDelete \/ KeyEnter \/ KeyLeft \/ KeyRight
    \/ KeyUp \/ KeyDown \/ KeyHome \/ KeyEnd \/ OtherEvent \/ Quit

EditorSpec == EditorInit /\ [][EditorNext]_vars

----------------------------------------------------------------------------
(* Properties *)

IsBlank(text) == \A k \in 1..Len(text) : IsWhitespace(text[k])
IsErrorText(o) == o.some /\ o.text # <<>> /\ Head(o.text) \in {"Parse error: ", "Error: "}

\* C1: evaluate_line returns None exactly for a blank line; otherwise a text that
\* starts with "Parse error: " when parse failed, with "Error: " when evaluate
\* failed, and is the formatted value when both succeeded.
C1_OutputShape ==
    pc = "done" =>
        /\ out = None <=> IsBlank(line)
        /\ out.some =>
             IF expr = NoExpr
             THEN Head(out.text) = "Parse error: " /\ Len(out.text) > 1
             ELSE IF ~result.ok
             THEN Head(out.text) = "Error: " /\ out.text = <<"Error: ">> \o result.err
             ELSE /\ ~IsErrorText(out)
                  /\ out.text = IF expr.type = "CurrencyConversion"
                                THEN format_currency(result.val, expr.target_currency)
                                ELSE format_number(result.val)

\* a non-blank line whose parse succeeded and whose evaluation failed
C1_Witness ==
    /\ pc = "done" /\ ~IsBlank(line) /\ expr # NoExpr /\ ~result.ok
    /\ out.some /\ Head(out.text) = "Error: "

\* C2: a call that returns an error text leaves the environment as it was,
\* and evaluate_line can be called again afterwards.
C2_ErrorKeepsEnvironment ==
    [][ /\ IsErrorText(out') => variables' = variables
        /\ (ENABLED EvaluateLine)' ]_vars

\* a chained assignment whose right-hand side failed, in a non-empty environment
C2_Witness ==
    /\ line = Join(<<X, <<"=">>, Y, <<"=">>, <<"1">>, <<"/">>, <<"0">>>>)
    /\ IsErrorText(out)
    /\ X \in DOMAIN variables

RECURSIVE AssignsTo(_, _)
\* the line parsed to e assigns the identifier n, at the top or further down the chain
AssignsTo(e, n) == e.type = "Assignment" /\ (e.var = n \/ AssignsTo(e.expr, n))

\* what the line made of the identifier n alone would return in the current state
Read(n) == evaluate_line(rates, variables, n).out

\* C3: read-after-write. A line that assigns n and evaluates successfully to V
\* binds n to V, a line that does not assign n leaves the binding of n alone, and
\* the line n returns the value n is bound to, for every identifier n.
C3_ReadAfterWrite ==
    /\ [][ \A n \in SessionNames :
             IF AssignsTo(expr', n) /\ result'.ok
             THEN n \in DOMAIN variables' /\ variables'[n] = result'.val
             ELSE n \in DOMAIN variables =>
                     n \in DOMAIN variables' /\ variables'[n] = variables[n] ]_vars
    /\ [](\A n \in SessionNames :
             n \in DOMAIN variables => Read(n) = Some(format_number(variables[n])))

\* the tree and the value of one operand of a precedence line
Leaf(a) == IF a = X THEN Variable(X) ELSE Number(Int2F(DigitsToInt(a)))
LeafValue(a) == IF a = X THEN variables[X] ELSE Int2F(DigitsToInt(a))
OperatorOf(o) == CASE o = <<"+">> -> "Add" [] o = <<"-">> -> "Subtract"
                   [] o = <<"*">> -> "Multiply" [] o = <<"/">> -> "Divide"
Arith(o, l, r) == CASE o = <<"+">> -> FAdd(l, r) [] o = <<"-">> -> FSub(l, r)
                    [] o = <<"*">> -> FMul(l, r) [] o = <<"/">> -> FDiv(l, r)
BindsTighter(o2, o1) == o2 \in {<<"*">>, <<"/">>} /\ o1 \in {<<"+">>, <<"-">>}

\* (a o1 b) o2 c and a o1 (b o2 c): the last call parsed to that tree and, when it
\* succeeded, returned that value
GroupedLeft(a, o1, b, o2, c) ==
    /\ expr = BinaryOp(OperatorOf(o2), BinaryOp(OperatorOf(o1), Leaf(a), Leaf(b)), Leaf(c))
    /\ result.ok =>
         result.val = Arith(o2, Arith(o1, LeafValue(a), LeafValue(b)), LeafValue(c))
GroupedRight(a, o1, b, o2, c) ==
    /\ expr = BinaryOp(OperatorOf(o1), Leaf(a), BinaryOp(OperatorOf(o2), Leaf(b), Leaf(c)))
    /\ result.ok =>
         result.val = Arith(o1, LeafValue(a), Arith(o2, LeafValue(b), LeafValue(c)))

\* C4: "a o1 b o2 c" groups to the right exactly when o2 is multiplicative and o1
\* additive, and to the left otherwise (same level: left-associative); parentheses
\* make their content one operand.
C4_Precedence ==
    (pc = "done" /\ line \in PrecLines) =>
        \A a \in Operands, b \in Operands, c \in Operands, o1 \in Ops, o2 \in Ops :
            /\ line = Flat(a, o1, b, o2, c) =>
                 IF BindsTighter(o2, o1) THEN GroupedRight(a, o1, b, o2, c)
                                         ELSE GroupedLeft(a, o1, b, o2, c)
            /\ line = ParenLeft(a, o1, b, o2, c) => GroupedLeft(a, o1, b, o2, c)
            /\ line = ParenRight(a, o1, b, o2, c) => GroupedRight(a, o1, b, o2, c)

\* "2 + x * 12" with x = 4 returned 50
C4_Witness ==
    /\ pc = "done"
    /\ line = Flat(<<"2">>, <<"+">>, X, <<"*">>, <<"1","2">>)
    /\ result.ok /\ result.val = Int2F(50)

\* the result of the last evaluate call is the error msg / the value v
Failed(res, msg) == ~res.ok /\ res.err = msg
Gave(res, v) == res.ok /\ res.val = v

\* the operands of the BinaryOp e as evaluate meets them: the left one in the
\* environment of the call, the right one in the environment the left one left
LeftOperand(e) == evaluate(rates, variables, e.left)
RightOperand(e) == evaluate(rates, LeftOperand(e).variables, e.right)

\* C5: a Divide node whose operands both evaluate fails with "Division by zero"
\* when the right value is exactly zero, whatever the left value, and returns
\* left / right for every other right value.
C5_DivideByZero ==
    [][ (expr.type = "BinaryOp" /\ expr.op = "Divide"
           /\ LeftOperand(expr).ok /\ RightOperand(expr).ok) =>
          IF RightOperand(expr).val = Int2F(0)
          THEN Failed(result', <<"Division by zero">>)
          ELSE Gave(result', FDiv(LeftOperand(expr).val, RightOperand(expr).val)) ]_vars

\* (x = 0) / x: the divisor is read after the dividend stored it
C5_Witness ==
    /\ pc = "done"
    /\ expr = BinaryOp("Divide", Assignment(X, Number(Int2F(0))), Variable(X))
    /\ Failed(result, <<"Division by zero">>)

UndefinedVariable(name) == <<"Undefined variable: ">> \o name

\* C6: a Variable node gives the stored value exactly when its name is a key of
\* the environment at that moment and fails with the undefined-variable error
\* otherwise; a BinaryOp or CurrencyConversion node with an undefined variable as
\* an evaluated operand fails with that error as a whole.
C6_VariableLookup ==
    [][ /\ expr.type = "Variable" =>
             IF expr.name \in DOMAIN variables
             THEN Gave(result', variables[expr.name])
             ELSE Failed(result', UndefinedVariable(expr.name))
        /\ (expr.type = "BinaryOp" /\ expr.left.type = "Variable"
              /\ expr.left.name \notin DOMAIN variables) =>
             Failed(result', UndefinedVariable(expr.left.name))
        /\ (expr.type = "BinaryOp" /\ expr.right.type = "Variable"
              /\ LeftOperand(expr).ok
              /\ expr.right.name \notin DOMAIN LeftOperand(expr).variables) =>
             Failed(result', UndefinedVariable(expr.right.name))
        /\ (expr.type = "CurrencyConversion" /\ expr.source.type = "Variable"
              /\ expr.source.name \notin DOMAIN variables) =>
             Failed(result', UndefinedVariable(expr.source.name)) ]_vars

\* 1 + y with y undefined
C6_Witness ==
    /\ pc = "done"
    /\ \E l \in Leaves : l.type = "Number" /\ expr = BinaryOp("Add", l, Variable(Y))
    /\ Y \notin DOMAIN variables
    /\ Failed(result, UndefinedVariable(Y))

\* the magnitude words and their factors
Factor ==
    [w \in {<<"t","h","o","u","s","a","n","d">>, <<"t","h","o","u","s","a","n","d","s">>,
            <<"k">>} |-> 1000]
    @@ [w \in {<<"m","i","l","l","i","o","n">>, <<"m","i","l","l","i","o","n","s">>,
               <<"m">>} |-> 1000000]
    @@ [w \in {<<"b","i","l","l","i","o","n">>, <<"b","i","l","l","i","o","n","s">>,
               <<"b">>} |-> 1000000000]
    @@ [w \in {<<"l","a","k","h">>, <<"l","a","k","h","s">>, <<"l","a","c">>,
               <<"l","a","c","s">>} |-> 100000]
    @@ [w \in {<<"c","r","o","r","e">>, <<"c","r","o","r","e","s">>, <<"c","r">>}
          |-> 10000000]

\* the positions of raw holding a numeric token immediately followed by a magnitude word
Folds(raw) == { i \in 1..(Len(raw) - 1) :
                  ParseF64(raw[i]).ok /\ to_lowercase(raw[i + 1]) \in DOMAIN Factor }
\* where the raw token at position i ends up once the pairs before it are folded
Image(raw, i) == i - Cardinality({ j \in Folds(raw) : j < i })

\* processed is raw with each such pair replaced by one numeric token of the
\* product, and every other token where and as it was
Folded(raw, processed) ==
    /\ Len(processed) = Len(raw) - Cardinality(Folds(raw))
    /\ \A i \in 1..Len(raw) :
         IF i \in Folds(raw)
         THEN /\ ParseF64(processed[Image(raw, i)]).ok
              /\ ParseF64(processed[Image(raw, i)]).val
                   = FMul(ParseF64(raw[i]).val, Int2F(Factor[to_lowercase(raw[i + 1])]))
         ELSE (i - 1) \notin Folds(raw) => processed[Image(raw, i)] = raw[i]

\* the line went to parse_expression as it is (neither blank nor an assignment)
Tokenized(text) == ~IsBlank(text) /\ ~assignment_regex(trim(text)).matched

\* C7: the token vector of a line is its split with every numeric token that is
\* immediately followed by a magnitude word (in any case) folded with that word
\* into one numeric token of number times factor, all other tokens untouched,
\* whatever the environment holds; a line of a number and a magnitude word gives
\* the product and reads no variable of that name.
C7_MagnitudeFolding ==
    (pc = "done" /\ Tokenized(line)) =>
        /\ Folded(split(trim(line)), toks)
        /\ (Folds(split(trim(line))) = {1} /\ Len(split(trim(line))) = 2) =>
             Gave(result, FMul(ParseF64(split(trim(line))[1]).val,
                               Int2F(Factor[to_lowercase(split(trim(line))[2])])))

\* "2.5 k" while a variable k is defined: one token, 2500, and not 7
C7_Witness ==
    /\ pc = "done"
    /\ line = Join(<<<<"2",".","5">>, K>>)
    /\ K \in DOMAIN variables
    /\ toks = << <<"2","5","0","0">> >>
    /\ Gave(result, Int2F(2500))

\* a >= b for a non-negative f64 a and an integer b (false for NaN)
FAtLeast(a, b) == IsInf(a) \/ (IsFinite(a) /\ FloorInt(a) >= b)

\* the unit and the label of the estimate of abs_value in either vocabulary
EstimateUnit(abs_value, indian) ==
    IF indian
    THEN (IF FAtLeast(abs_value, 10000000) THEN 10000000
          ELSE IF FAtLeast(abs_value, 100000) THEN 100000 ELSE 1000)
    ELSE (IF FAtLeast(abs_value, 1000000000) THEN 1000000000
          ELSE IF FAtLeast(abs_value, 1000000) THEN 1000000 ELSE 1000)
EstimateLabel(unit, indian) ==
    CASE unit = 1000 -> <<"K">>
      [] unit = 100000 -> <<"L","a","c">>
      [] unit = 1000000 -> <<"M">>
      [] unit = 10000000 -> <<"C","r">>
      [] unit = 1000000000 -> <<"B">>

\* tenths shown as a quotient with one decimal digit, a decimal digit of zero suppressed
ShownTenths(tenths) ==
    IF tenths % 10 = 0 THEN IntToDigits(tenths \div 10)
    ELSE IntToDigits(tenths \div 10) \o <<".">> \o IntToDigits(tenths % 10)

\* C8: an estimate is appended exactly when |value| >= 1000; its label is B, M or K
\* (regular) or Cr, Lac or K (alternate) by the thresholds, and its quotient has one
\* decimal digit, suppressed when zero.
C8_Estimate ==
    pc = "done" =>
        /\ estimation.some <=> FAtLeast(FAbs(value), 1000)
        /\ (estimation.some /\ IsFinite(value)) =>
             estimation.text =
                ShownTenths(RoundHalfEven(
                    FAbs(value).n,
                    FAbs(value).d * (EstimateUnit(FAbs(value), indian_style) \div 10)))
                \o <<" ">>
                \o EstimateLabel(EstimateUnit(FAbs(value), indian_style), indian_style)

\* r-th character from the right is where a separator belongs
SeparatorPlace(r, indian) == IF indian THEN r >= 4 /\ (r - 4) % 3 = 0 ELSE r % 4 = 0
IsDigitChar(c) == c # ","

\* C9: integer_str has a separator exactly before each group of 3 digits from the
\* right (regular), or before the last 3 digits and then before each further group
\* of 2 (alternate); none is leading or trailing, and without the separators it is
\* the digits of the integer part.
C9_Grouping ==
    pc = "done" =>
        /\ \A k \in 1..Len(integer_str) :
             integer_str[k] = "," <=> SeparatorPlace(Len(integer_str) + 1 - k, indian_style)
        /\ integer_str # <<>>
        /\ Head(integer_str) # "," /\ integer_str[Len(integer_str)] # ","
        /\ AllDigits(SelectSeq(integer_str, IsDigitChar))
        /\ SelectSeq(integer_str, IsDigitChar) = integer_part(FAbs(value))
        /\ IsFinite(value) =>
             DigitsToInt(SelectSeq(integer_str, IsDigitChar)) = FloorInt(FAbs(value))

\* 12000000 in the alternate pattern: 1,20,00,000
C9_Witness ==
    /\ pc = "done" /\ indian_style
    /\ value = Int2F(12000000)
    /\ integer_str = <<"1", ",", "2", "0", ",", "0", "0", ",", "0", "0", "0">>

\* the fraction of abs_value in hundredths, rounded half up
Hundredths(abs_value) ==
    (200 * (abs_value.n % abs_value.d) + abs_value.d) \div (2 * abs_value.d)

\* C10: formatted has a fractional suffix exactly when the fraction rounded to 2
\* decimal digits is nonzero, and the suffix is exactly two digits after the point.
C10_TwoDecimalDigits ==
    (pc = "done" /\ IsFinite(value)) =>
        IF Hundredths(FAbs(value)) = 0
        THEN FirstIndex(formatted, ".") = 0
        ELSE /\ FirstIndex(formatted, ".") # 0
             /\ Len(formatted) - FirstIndex(formatted, ".") = 2
             /\ AllDigits(SubSeq(formatted, FirstIndex(formatted, ".") + 1, Len(formatted)))

\* C11: parse returns a tree only when the top-level conversion rule consumed the
\* whole token vector of the line.
C11_WholeLineDerived ==
    pc = "parsed" => parse_conversion(toks, 1).i = Len(toks) + 1

\* the last parse failed with the message msg
ParseFailed(msg) == pc = "failed" /\ expr = NoExpr /\ parse_error = msg

\* the messages of the five kinds of malformed input, the token aside
KindMessages == { "Empty input", "Expected closing parenthesis", "Expected expression",
                  "Cannot parse: ", "Expected currency after 'to'" }

\* C12: empty input, an unclosed parenthesis, an operator with no operand after it,
\* a token at operand position that is no number, identifier or "(", and "to" with
\* no token after it each make parse fail, with five pairwise different messages.
C12_MalformedInputs ==
    pc # "call" =>
        /\ Cardinality(KindMessages) = 5
        /\ line \in EmptyLines => ParseFailed(<<"Empty input">>)
        /\ line \in UnclosedLines => ParseFailed(<<"Expected closing parenthesis">>)
        /\ line \in NoOperandLines => ParseFailed(<<"Expected expression">>)
        /\ \A t \in NotOperands :
             (line = t \/ \E e \in WellFormed, o \in BinaryOperators : line = Join(<<e, o, t>>))
                => ParseFailed(<<"Cannot parse: ">> \o t)
        /\ line \in NoTargetLines => ParseFailed(<<"Expected currency after 'to'">>)

\* the tree of a summand and the code a target is normalized to
SummandTree(a) ==
    CASE a = <<"2">> -> Number(Int2F(2))
      [] a = X -> Variable(X)
      [] OTHER -> CurrencyAnnotation(Number(Int2F(5)), USD)
TargetCode(c) ==
    CASE c = USD -> USD
      [] c = <<"i","n","r">> -> INR
      [] c = <<"$">> -> USD
      [] c = <<"g","b","p">> -> <<"G","B","P">>

\* C13: "a + b to c" and "(a + b) to c", with the keyword in any letter case, parse
\* to a CurrencyConversion whose source is the whole sum a + b.
C13_ConversionWrapsSum ==
    (pc # "call" /\ line \in ConversionLines) =>
        \A a \in Summands, b \in Summands, t \in Keywords, c \in Targets :
            (line = SumTo(a, b, t, c) \/ line = ParenSumTo(a, b, t, c)) =>
                /\ pc = "parsed"
                /\ expr = CurrencyConversion(BinaryOp("Add", SummandTree(a), SummandTree(b)),
                                             TargetCode(c))

\* 2 + 5 USD TO inr
C13_Witness ==
    /\ pc = "parsed"
    /\ line = SumTo(<<"2">>, Join(<<<<"5">>, USD>>), <<"T","O">>, <<"i","n","r">>)
    /\ expr.type = "CurrencyConversion" /\ expr.source.type = "BinaryOp"
    /\ expr.target_currency = INR

\* the code of the annotation at the end of the left spine of e, <<>> if the spine
\* ends in anything else (spines of ConversionSources have at most two BinaryOps)
SpineCode(e) ==
    IF e.type = "CurrencyAnnotation" THEN e.currency
    ELSE IF e.type # "BinaryOp" THEN <<>>
    ELSE IF e.left.type = "CurrencyAnnotation" THEN e.left.currency
    ELSE IF e.left.type # "BinaryOp" THEN <<>>
    ELSE IF e.left.left.type = "CurrencyAnnotation" THEN e.left.left.currency
    ELSE <<>>

\* res is what convert gave, as a Result
IsConvertResult(res, c) == IF c.ok THEN Gave(res, c.val) ELSE Failed(res, c.err)

UnknownCurrency(code) == <<"Unknown currency: ">> \o code

\* C15: convert fails with the unknown-currency error exactly when from or to is
\* no key of the rate table, naming from when both are absent, and otherwise gives
\* (amount / rate[from]) * rate[to]; it changes neither the rate table nor the
\* environment.
C15_Convert ==
    [][ pc = "call" =>
          /\ IF conv_from \notin DOMAIN rates
             THEN Failed(converted', UnknownCurrency(conv_from))
             ELSE IF conv_to \notin DOMAIN rates
             THEN Failed(converted', UnknownCurrency(conv_to))
             ELSE Gave(converted', FMul(FDiv(conv_amount, rates[conv_from]), rates[conv_to]))
          /\ rates' = rates /\ variables' = variables ]_vars

\* both codes absent from the table
C15_Witness ==
    /\ pc = "failed"
    /\ conv_from \notin DOMAIN rates /\ conv_to \notin DOMAIN rates /\ conv_from # conv_to
    /\ Failed(converted, UnknownCurrency(conv_from))

\* a <= b as f64 comparison (false whenever a NaN is involved)
FAtMost(a, b) == FLess(a, b) \/ FEq(a, b)
\* |a - b| <= |b| / 1000 as f64 arithmetic and comparison
Close(a, b) == FAtMost(FAbs(FSub(a, b)), FDiv(FAbs(b), Int2F(1000)))

\* C16 as stated: converting there and back gives the amount back, within rounding
\* tolerance, for every amount.
C16_RoundTripEveryAmount ==
    pc = "back" => converted.ok /\ Close(converted.val, conv_amount)

\* C16: converting there and back gives a finite amount back within rounding
\* tolerance when the intermediate value is finite, and gives a non-finite amount
\* back as it is.
C16_RoundTrip ==
    pc = "back" =>
        /\ converted.ok
        /\ IF IsFinite(conv_amount)
           THEN IsFinite(convert(rates, conv_amount, conv_from, conv_to).val) =>
                  Close(converted.val, conv_amount)
           ELSE converted.val = conv_amount

\* 2.5 from EUR to INR and back
C16_Witness ==
    /\ pc = "back"
    /\ conv_amount = Rat(5, 2) /\ conv_from = EUR /\ conv_to = INR
    /\ converted.ok /\ converted.val = Rat(5, 2)

\* the symbol a currency code is printed with
SymbolOf(code) ==
    CASE code = USD -> <<"$">>
      [] code = EUR -> <<"EURO SIGN">>
      [] code = INR -> <<"RUPEE SIGN">>
      [] OTHER -> code

\* the grouped number and the optional estimate of v in either style
NumberText(v, indian) ==
    format_with_separator(v, indian)
    \o (IF estimate_number(v, indian).some
        THEN <<" ", "(">> \o estimate_number(v, indian).text \o <<")">>
        ELSE <<>>)

\* C17: a successful line is printed as symbol, space, grouped number and optional
\* estimate exactly when the root of its tree is a CurrencyConversion, with the
\* symbol of that node's target code (the code itself when it is not USD, EUR or
\* INR); every other successful line is printed as the plain number.
C17_CurrencyTag ==
    (expr # NoExpr /\ result.ok) =>
        /\ out.some
        /\ out.text = IF expr.type = "CurrencyConversion"
                      THEN SymbolOf(expr.target_currency) \o <<" ">>
                           \o NumberText(result.val, expr.target_currency = INR)
                      ELSE NumberText(result.val, FALSE)
        /\ line = InParentheses(TwoUsdTo(INR)) => Head(out.text) = "RUPEE SIGN"
        /\ line = Join(<<X, <<"=">>, <<"2">>, INR, <<"t","o">>, INR>>) => out.text = <<"2">>
        /\ line = Join(<<InParentheses(TwoUsdTo(INR)), <<"/">>, <<"4">>>>) =>
             out.text = NumberText(FDiv(FMul(Int2F(2), rates[INR]), Int2F(4)), FALSE)

\* 2 USD to gbp with a fetched table that has GBP: the code is the symbol
C17_Witness ==
    /\ line = TwoUsdTo(<<"g","b","p">>)
    /\ result.ok
    /\ out = Some(<<"G", "B", "P", " ", "1", ".", "5", "0">>)

\* no token of ts is the conversion keyword or a currency token
NoCurrency(ts) ==
    \A k \in 1..Len(ts) : to_lowercase(ts[k]) # <<"t","o">> /\ ~is_currency(ts[k])
DividedByZero(res) == ~res.ok /\ res.err = <<"Division by zero">>

\* C18: a line without conversion and currency tokens that is evaluated twice in
\* succession on the same calculator, dividing by zero neither time, gives the
\* identical result both times.
C18_SameResultTwice ==
    [][ (line' = line /\ expr # NoExpr /\ expr' # NoExpr /\ NoCurrency(toks)
           /\ ~DividedByZero(result) /\ ~DividedByZero(result')) =>
          result' = result ]_vars

RECURSIVE Untagged(_)
\* the tree e with every CurrencyAnnotation replaced by its inner expression
Untagged(e) ==
    CASE e.type = "CurrencyAnnotation" -> Untagged(e.value)
      [] e.type = "BinaryOp" -> BinaryOp(e.op, Untagged(e.left), Untagged(e.right))
      [] e.type = "Assignment" -> Assignment(e.var, Untagged(e.expr))
      [] OTHER -> e
IsTagged(e) == e.type = "CurrencyAnnotation"

\* C19: a CurrencyAnnotation node gives the value of its inner expression, and a
\* BinaryOp over annotated operands gives what it gives over the bare operands,
\* whatever the codes: the sum of two annotated numbers is the sum of the numbers.
C19_AnnotationIgnored ==
    [][ /\ IsTagged(expr) => Gave(result', evaluate(rates, variables, expr.value).val)
        /\ (expr.type = "BinaryOp" /\ (IsTagged(expr.left) \/ IsTagged(expr.right))) =>
             /\ result'.ok = evaluate(rates, variables, Untagged(expr)).ok
             /\ result'.val = evaluate(rates, variables, Untagged(expr)).val
             /\ result'.err = evaluate(rates, variables, Untagged(expr)).err
        /\ (expr.type = "BinaryOp" /\ expr.op = "Add"
              /\ IsTagged(expr.left) /\ IsTagged(expr.right)) =>
             Gave(result', FAdd(expr.left.value.n, expr.right.value.n)) ]_vars

\* 2 USD + 3 EUR is 5
C19_Witness ==
    /\ pc = "done"
    /\ expr = BinaryOp("Add", Tagged(USD), CurrencyAnnotation(Number(Int2F(3)), EUR))
    /\ Gave(result, Int2F(5))

\* the environment vs with name bound to v
Bound(vs, name, v) == [k \in DOMAIN vs \cup {name} |-> IF k = name THEN v ELSE vs[k]]

\* C20: a call of evaluate on an Assignment node that fails leaves the environment
\* as it was before the call; one that succeeds changes it only in that the
\* assigned name maps to the returned value.
C20_AssignmentEnvironment ==
    [][ expr.type = "Assignment" =>
          IF result'.ok
          THEN variables' = Bound(variables, expr.var, result'.val)
          ELSE variables' = variables ]_vars

\* the result res is the outcome r of an evaluation
Same(res, r) == res.ok = r.ok /\ res.val = r.val /\ res.err = r.err

\* C21: a BinaryOp evaluates its left operand completely before its right one and
\* not the right one when the left one fails: a variable read on the right sees
\* the assignment made on the left, a variable read on the left does not see
\* the assignment made on the right, and an assignment on the right is not
\* performed when the left operand fails.
C21_LeftBeforeRight ==
    [][ expr.type = "BinaryOp" =>
          /\ (expr.left.type = "Assignment" /\ expr.right = Variable(expr.left.var)
                /\ LeftOperand(expr).ok) =>
               /\ Same(result', ApplyOp(expr.op, LeftOperand(expr).val,
                                        LeftOperand(expr).val, <<>>))
               /\ variables' = Bound(variables, expr.left.var, LeftOperand(expr).val)
          /\ (expr.left.type = "Variable" /\ expr.right.type = "Assignment"
                /\ expr.right.var = expr.left.name
                /\ expr.left.name \in DOMAIN variables /\ result'.ok) =>
               \E v \in { variables'[expr.right.var] } :
                   Same(result', ApplyOp(expr.op, variables[expr.left.name], v, <<>>))
          /\ (expr.right.type = "Assignment" /\ ~LeftOperand(expr).ok) =>
               /\ Same(result', LeftOperand(expr))
               /\ variables' = LeftOperand(expr).variables
               /\ (expr.left.type = "Variable" => variables' = variables) ]_vars

\* (x = 1) + x gives 2 in every environment, and x + (x = 1) on x = 3 gives 4
C21_Witness ==
    /\ pc = "done"
    /\ \/ /\ expr = BinaryOp("Add", Assignment(X, Number(Int2F(1))), Variable(X))
          /\ Gave(result, Int2F(2))
       \/ /\ expr = BinaryOp("Add", Variable(X), Assignment(X, Number(Int2F(1))))
          /\ Gave(result, Int2F(4))

MissingAnnotation == <<"Expression does not have a currency annotation">>

\* C22: a CurrencyConversion evaluates its source, then extracts the source
\* currency, then calls convert: a failing source ends the evaluation with its
\* own error, whatever the annotation and the target; a missing annotation ends
\* it before the target is looked up; and convert is called only with the
\* amount and the code the two earlier steps produced.
C22_ConversionOrder ==
    [][ /\ (pc = "call" /\ ~evaluate(rates, variables, expr.source).ok) =>
             /\ pc' = "done" /\ converted' = NoResult
             /\ Same(result', evaluate(rates, variables, expr.source))
        /\ (pc = "amount" /\ ~extract_currency(expr.source).ok) =>
             /\ pc' = "done" /\ converted' = NoResult
             /\ Failed(result', MissingAnnotation)
        /\ converted' # converted =>
             /\ result.ok /\ conv_amount = result.val
             /\ extract_currency(expr.source).ok
             /\ conv_from = extract_currency(expr.source).currency
             /\ Same(result', convert(rates, result.val, conv_from, expr.target_currency))
        /\ pc = "done" => UNCHANGED result ]_vars

\* 2 to XYZ: the missing annotation is reported, not the unknown target
C22_Witness ==
    /\ pc = "done"
    /\ expr = CurrencyConversion(Number(Int2F(2)), <<"X","Y","Z">>)
    /\ Failed(result, MissingAnnotation)
    /\ converted = NoResult

RECURSIVE Assigns(_, _)
\* the tree e holds an Assignment node for the name n
Assigns(e, n) ==
    CASE e.type = "Assignment" -> e.var = n \/ Assigns(e.expr, n)
      [] e.type = "BinaryOp" -> Assigns(e.left, n) \/ Assigns(e.right, n)
      [] e.type = "CurrencyAnnotation" -> Assigns(e.value, n)
      [] e.type = "CurrencyConversion" -> Assigns(e.source, n)
      [] OTHER -> FALSE

\* C23: over any sequence of evaluate and evaluate_line calls a name once
\* assigned stays a key, a call whose tree holds no Assignment node for a name
\* leaves that name's binding (all of the environment, when it holds none at
\* all) as it was, and a name maps to the value of its most recent successful
\* assignment.
C23_EnvironmentGrows ==
    [][ /\ DOMAIN variables \subseteq DOMAIN variables'
        /\ \A n \in {X, Y} :
              ~Assigns(expr', n) =>
                 /\ n \in DOMAIN variables' <=> n \in DOMAIN variables
                 /\ n \in DOMAIN variables => variables'[n] = variables[n]
        /\ (\A n \in {X, Y} : ~Assigns(expr', n)) => variables' = variables
        /\ (expr'.type = "Assignment" /\ result'.ok) =>
              /\ expr'.var \in DOMAIN variables'
              /\ variables'[expr'.var] = result'.val
        /\ (expr'.type = "Assignment" /\ expr'.expr.type = "BinaryOp"
              /\ expr'.expr.left = Assignment(X, One)) =>
              X \in DOMAIN variables' /\ variables'[X] = Int2F(1) ]_vars

\* y = (x = 1) / 0 after x and y were assigned other values: the call failed,
\* x is overwritten and y keeps its value
C23_Witness ==
    /\ expr = Assignment(Y, BinaryOp("Divide", Assignment(X, One), Number(Int2F(0))))
    /\ ~result.ok
    /\ X \in DOMAIN variables /\ variables[X] = Int2F(1)
    /\ Y \in DOMAIN variables /\ variables[Y] = Int2F(6)

\* C24: the rate table is set once, while the converter is constructed: one
\* fetch is attempted and never repeated, a failed fetch gives the static
\* fallback table and a successful one its own table, construction succeeds
\* either way, and no evaluate, evaluate_line or convert call afterwards,
\* successful or failing, changes the table.
C24_RatesSetOnce ==
    [][ /\ fetched # NotFetched => fetched' = fetched
        /\ pc = "new" => rates' = rates
        /\ pc = "fetched" =>
              /\ pc' = "calls"
              /\ fetched.state = "Err" =>
                    rates' = (USD :> Int2F(1)) @@ (EUR :> Rat(92, 100)) @@ (INR :> Rat(835, 10))
              /\ fetched.state = "Ok" => rates' = fetched.rates
        /\ pc = "calls" => rates' = rates /\ pc' = "calls" ]_vars

\* after a failed fetch: a convert call that failed and an evaluation that failed
C24_Witness ==
    /\ pc = "calls" /\ fetched = FetchFailed /\ rates = FallbackRates
    /\ converted # NoResult /\ ~converted.ok
    /\ expr # NoExpr /\ ~result.ok

RECURSIVE OperatorsOf(_)
\* the operators of the BinaryOp nodes of the tree e
OperatorsOf(e) ==
    CASE e.type = "BinaryOp" -> {e.op} \cup OperatorsOf(e.left) \cup OperatorsOf(e.right)
      [] e.type = "Assignment" -> OperatorsOf(e.expr)
      [] e.type = "CurrencyAnnotation" -> OperatorsOf(e.value)
      [] e.type = "CurrencyConversion" -> OperatorsOf(e.source)
      [] OTHER -> {}

\* C25: no line makes parse return a tree with a Power or Modulo node: every
\* BinaryOp of a parsed tree has operator Add, Subtract, Multiply or Divide,
\* also when the line holds "^" or "%".
C25_NoPowerNoModulo ==
    pc = "parsed" => OperatorsOf(expr) \subseteq {"Add", "Subtract", "Multiply", "Divide"}

\* a product followed by "^" or "%": the tree is the product alone
C25_Witness ==
    /\ pc = "parsed"
    /\ line \in PowerLines
    /\ (<<"^">> \in Range(toks) \/ <<"%">> \in Range(toks))
    /\ OperatorsOf(expr) = {"Multiply"}

RECURSIVE NamesOf(_)
\* the names of the Variable nodes and the Assignment targets of the tree e
NamesOf(e) ==
    CASE e.type = "Variable" -> {e.name}
      [] e.type = "BinaryOp" -> NamesOf(e.left) \cup NamesOf(e.right)
      [] e.type = "Assignment" -> {e.var} \cup NamesOf(e.expr)
      [] e.type = "CurrencyAnnotation" -> NamesOf(e.value)
      [] e.type = "CurrencyConversion" -> NamesOf(e.source)
      [] OTHER -> {}

\* a non-empty word of letters, digits and underscore that does not start with a digit
IsIdentifier(n) ==
    /\ n # <<>>
    /\ \A k \in 1..Len(n) : IsUpper(n[k]) \/ IsLower(n[k]) \/ IsDigit(n[k]) \/ n[k] = "_"
    /\ ~IsDigit(n[1])

\* C26: every Variable node and every Assignment target of a parsed tree carries
\* a valid identifier.
C26_ValidIdentifiers ==
    pc = "parsed" => \A n \in NamesOf(expr) : IsIdentifier(n)

\* the result of the line carries the currency tag INR
TaggedINR == expr.type = "CurrencyConversion" /\ expr.target_currency = INR

RECURSIVE GroupEnd(_, _)
\* the end of the run of digits and separators of text that starts at k
GroupEnd(text, k) ==
    IF k < Len(text) /\ (IsDigit(text[k + 1]) \/ text[k + 1] = ",")
    THEN GroupEnd(text, k + 1) ELSE k
\* the grouped integer digits printed in text: its first run of digits and separators
FirstDigit(text) == CHOOSE k \in 1..Len(text) :
                        IsDigit(text[k]) /\ \A j \in 1..(k - 1) : ~IsDigit(text[j])
GroupedDigits(text) == SubSeq(text, FirstDigit(text), GroupEnd(text, FirstDigit(text)))
\* the label of the estimate printed in text: what stands between its last space and ")"
LastSpace(text) == CHOOSE k \in 1..Len(text) :
                       text[k] = " " /\ \A j \in (k + 1)..Len(text) : text[j] # " "
EstimateLabelOf(text) == SubSeq(text, LastSpace(text) + 1, Len(text) - 1)

\* C27: the alternate grouping and the Cr / Lac / K vocabulary are used exactly
\* when the result carries the tag INR; every other tag and every untagged
\* number, also one entered with lakh or crore, is printed with the regular
\* grouping and B / M / K; grouping and vocabulary always go together.
C27_IndianStyle ==
    (pc = "done" /\ expr # NoExpr /\ result.ok /\ IsFinite(result.val)) =>
        /\ \A k \in 1..Len(GroupedDigits(out.text)) :
              GroupedDigits(out.text)[k] = ","
                 <=> SeparatorPlace(Len(GroupedDigits(out.text)) + 1 - k, TaggedINR)
        /\ FAtLeast(FAbs(result.val), 1000) =>
              /\ out.text[Len(out.text)] = ")"
              /\ EstimateLabelOf(out.text)
                   = EstimateLabel(EstimateUnit(FAbs(result.val), TaggedINR), TaggedINR)

\* 2 lakh USD to inr: 1,67,00,000 and Cr
C27_Witness ==
    /\ pc = "done"
    /\ line = Join(<<<<"2">>, <<"l","a","k","h">>, USD, <<"t","o">>, <<"i","n","r">>>>)
    /\ out = Some(<<"RUPEE SIGN", " ", "1", ",", "6", "7", ",", "0", "0", ",", "0", "0", "0",
                    " ", "(", "1", ".", "7", " ", "C", "r", ")">>)

\* the six currency tokens in upper case, and the code each stands for
CurrencyWords == { <<"U","S","D">>, <<"E","U","R">>, <<"I","N","R">>,
                   <<"$">>, <<"EURO SIGN">>, <<"RUPEE SIGN">> }
Canonical(word) ==
    CASE word \in { <<"$">>, <<"U","S","D">> } -> <<"U","S","D">>
      [] word \in { <<"EURO SIGN">>, <<"E","U","R">> } -> <<"E","U","R">>
      [] word \in { <<"RUPEE SIGN">>, <<"I","N","R">> } -> <<"I","N","R">>
      [] OTHER -> word

RECURSIVE LeftmostLeaf(_)
\* the operand the parser built first
LeftmostLeaf(e) ==
    CASE e.type = "BinaryOp" -> LeftmostLeaf(e.left)
      [] e.type = "CurrencyConversion" -> LeftmostLeaf(e.source)
      [] e.type = "Assignment" -> LeftmostLeaf(e.expr)
      [] OTHER -> e

\* C28: a number is a CurrencyAnnotation exactly when the token after it is, in
\* any case, one of USD, EUR, INR, $, the euro sign, the rupee sign, and its
\* code is the canonical one; after any other token, also a code the rate table
\* holds, it is a plain Number. The token after "to" is the target whatever it
\* is: the canonical code of a currency token, the upper-cased token otherwise.
C28_AnnotationTokens ==
    /\ (pc = "parsed" /\ Len(toks) >= 2 /\ ParseF64(toks[1]).ok) =>
             LeftmostLeaf(expr) =
                IF to_uppercase(toks[2]) \in CurrencyWords
                THEN CurrencyAnnotation(Number(ParseF64(toks[1]).val),
                                        Canonical(to_uppercase(toks[2])))
                ELSE Number(ParseF64(toks[1]).val)
    /\ (pc # "call" /\ Len(toks) >= 3 /\ ParseF64(toks[1]).ok
          /\ to_lowercase(toks[2]) = <<"t","o">>) =>
          /\ pc = "parsed"
          /\ expr = CurrencyConversion(Number(ParseF64(toks[1]).val),
                                       Canonical(to_uppercase(toks[3])))
    /\ (pc # "call" /\ Len(toks) >= 4 /\ ParseF64(toks[1]).ok
          /\ to_uppercase(toks[2]) \in CurrencyWords
          /\ to_lowercase(toks[3]) = <<"t","o">>) =>
          /\ pc = "parsed"
          /\ expr.type = "CurrencyConversion"
          /\ expr.target_currency = Canonical(to_uppercase(toks[4]))

\* 2 gbp with a table that holds GBP is the plain 2; 2 usd to rs has the target RS
C28_Witness ==
    /\ pc = "parsed"
    /\ \/ /\ line = <<"2", " ", "g", "b", "p">>
          /\ <<"G","B","P">> \in DOMAIN rates
          /\ expr = Number(Int2F(2))
       \/ /\ line = Join(<<<<"2">>, <<"u","s","d">>, TO, <<"r","s">>>>)
          /\ expr = CurrencyConversion(CurrencyAnnotation(Number(Int2F(2)), USD), <<"R","S">>)

\* C29: after any sequence of key events, multi-byte characters included, the
\* buffer has at least one line, cursor_line is a valid line index and
\* cursor_col is at most the length of the current line and on a character
\* boundary of it, and neither an editor operation nor a render panics.
C29_EditorInvariant ==
    /\ Len(lines) >= 1
    /\ cursor_line < Len(lines)
    /\ cursor_col <= str_len(lines[cursor_line + 1])
    /\ is_char_boundary(lines[cursor_line + 1], cursor_col)
    /\ pc # "panicked"

\* the step is a render pass that drew its frame
DrawStep == pc = "draw" /\ pc' = "key"

RECURSIVE EnvBefore(_)
\* the calculator's environment when the pass reaches line i of the buffer
EnvBefore(i) ==
    IF i = 1 THEN variables
    ELSE evaluate_line(rates, EnvBefore(i - 1), lines[i - 1]).variables

\* every line is evaluated, top to bottom, from the environment the last pass left
PassOnOneCalculator ==
    /\ DrawStep =>
          /\ Len(shown') = Len(lines)
          /\ \A i \in 1..Len(lines) :
                shown'[i] = Row(lines[i], evaluate_line(rates, EnvBefore(i), lines[i]).out)
          /\ variables' = EnvBefore(Len(lines) + 1)
    /\ pc = "key" => variables' = variables

XPlusOne == <<"x","=","x","+","1">>
\* the line has the form of an assignment to x
AssignsX(l) == Len(l) >= 2 /\ l[1] = "x" /\ l[2] = "="
\* the frame on screen was drawn from the buffer as it is now
SameBuffer == [k \in 1..Len(shown) |-> shown[k].line] = lines

\* C30: a render pass evaluates every buffer line, top to bottom, on the one
\* calculator, starting from the environment the previous pass left; key events
\* leave the environment alone, so a variable outlives its assigning line; and
\* a line "x=x+1" shows a new value on each pass over an unchanged buffer once
\* x is defined, provided no other line of the buffer assigns x.
C30_RenderPass ==
    [][ /\ PassOnOneCalculator
        /\ DrawStep /\ SameBuffer =>
              \A i \in 1..Len(lines) :
                 /\ lines[i] = XPlusOne
                 /\ X \in DOMAIN variables
                 /\ \A j \in 1..Len(lines) : j # i => ~AssignsX(lines[j])
                 => shown'[i].text # shown[i].text ]_vars

\* a frame in which "x=x+1" shows 3: x was assigned 1 by a line since deleted
\* and has been incremented by two passes
C30_Witness ==
    /\ pc = "key"
    /\ SameBuffer
    /\ \E i \in 1..Len(lines) :
          /\ shown[i] = Row(XPlusOne, Some(<<"3">>))
          /\ \A j \in 1..Len(lines) : j # i => ~AssignsX(lines[j])

\* C30 as stated: the same, with a line "x=x+1" showing a new value on each
\* pass once x is defined, whatever the other lines of the buffer are.
C30_NewValueEachPass ==
    [][ /\ PassOnOneCalculator
        /\ DrawStep /\ SameBuffer =>
              \A i \in 1..Len(lines) :
                 lines[i] = XPlusOne /\ X \in DOMAIN variables
                 => shown'[i].text # shown[i].text ]_vars


====
